---------------------------- MODULE Spec2Model ----------------------------
(***************************************************************************)
(* GitHub File Storage: the chunked transfer and registry engine of        *)
(* src/script.js (variant "A": per-file folder, parallel batches) and of   *)
(* src/unnamed/part_000 (variant "B": suffix-numbered parts, sequential).  *)
(*                                                                         *)
(* Bytes are small naturals, blobs and byte arrays are sequences of bytes, *)
(* file names and remote paths are sequences of one-character strings and  *)
(* literal tokens.                                                         *)
(***************************************************************************)
EXTENDS Integers, Sequences, FiniteSets, TLC

(***************************************************************************)
(* Bounds of the model.                                                    *)
(***************************************************************************)
\* longest blob handed to the chunker in SpecChunker
MaxBlobLen == 5
\* largest chunk size tried in SpecChunker
MaxChunkSize == 3
\* user actions (select, upload, download, delete, open files tab) of the
\* session in Spec, where the store may fail requests
MaxOps == 2
\* user actions of the session in SpecCorrupt, SpecSettings and SpecCodec
MaxEnvOps == 3
\* failures the remote store may answer with
MaxFaults == 2
\* loadUploadedFiles calls of a session awaiting their answer together
MaxLoads == 2
\* user actions of the session when the store serves every request
MaxCalmOps == 4
\* longest file name and largest chunk index handed to the path derivations
MaxNameLen == 2
MaxIndex == 11
\* longest file name handed to detectFileCategory
MaxFileNameLen == 4
\* maxAttempts of waitForCompressionLib (50 in the source), scaled
maxAttempts == 1
\* user actions per session when two sessions work side by side
MaxRaceOps == 2

Min(a, b) == IF a < b THEN a ELSE b

\* the payload bytes a file may hold
Byte == {0, 1}

RECURSIVE SeqsUpTo(_, _)
\* all sequences over S of length at most n
SeqsUpTo(S, n) ==
    IF n = 0 THEN {<< >>}
    ELSE LET shorter == SeqsUpTo(S, n - 1)
         IN  shorter \cup {Append(q, x) : q \in {r \in shorter : Len(r) = n - 1}, x \in S}

(***************************************************************************)
(* Chunker: createChunks and combineChunks.                                *)
(***************************************************************************)
\* Blob.slice(start, end): bytes start..end-1 (0-based), end clamped to the size
slice(blob, start, end) == SubSeq(blob, start + 1, Min(end, Len(blob)))

\* a chunker that advances one byte too far after every chunk
RECURSIVE createChunksSkip(_, _, _, _)
createChunksSkip(blob, size, offset, chunks) ==
    IF offset < Len(blob)
    THEN createChunksSkip(blob, size, offset + size + 1,
                          Append(chunks, slice(blob, offset, offset + size)))
    ELSE chunks

\* the while loop of createChunks, from `offset` with `chunks` collected so far
RECURSIVE createChunksFrom(_, _, _, _)
createChunksFrom(blob, size, offset, chunks) ==
    IF offset < Len(blob)
    THEN createChunksFrom(blob, size, offset + size,
                          Append(chunks, slice(blob, offset, offset + size)))
    ELSE chunks

\* a chunker that drops the final, shorter chunk
createChunksNoTail(blob, size) ==
    LET all == createChunksFrom(blob, size, 0, << >>)
    IN  IF all # << >> /\ Len(all[Len(all)]) < size
        THEN SubSeq(all, 1, Len(all) - 1) ELSE all

createChunks(blob, size) == createChunksFrom(blob, size, 0, << >>)

RECURSIVE SumLen(_)
\* chunks.reduce((sum, c) => sum + c.length, 0)
SumLen(chunks) ==
    IF chunks = << >> THEN 0 ELSE Len(chunks[1]) + SumLen(Tail(chunks))

\* Uint8Array.set(chunk, offset): chunk written into arr from 0-based offset
setAt(arr, chunk, offset) ==
    [k \in 1..Len(arr) |->
        IF k > offset /\ k <= offset + Len(chunk) THEN chunk[k - offset] ELSE arr[k]]

RECURSIVE combineFrom(_, _, _)
\* the forEach of combineChunks, from 0-based `offset` into `combined`
combineFrom(chunks, combined, offset) ==
    IF chunks = << >> THEN combined
    ELSE combineFrom(Tail(chunks), setAt(combined, chunks[1], offset),
                     offset + Len(chunks[1]))

combineChunks(chunks) ==
    combineFrom(chunks, [k \in 1..SumLen(chunks) |-> 0], 0)

(***************************************************************************)
(* Codec and transport encodings.  The gzip codec is a black box to the    *)
(* program; it is modelled as a framing (magic byte, payload, length       *)
(* trailer) that ungzip verifies and strips.  Base64 text is modelled as   *)
(* two octal digit characters per byte.                                    *)
(***************************************************************************)
\* pako.gzip(data)
gzip(data) == <<31>> \o data \o <<Len(data)>>

\* whether pako.ungzip(bytes) returns (it throws on a malformed stream)
ungzipOk(bytes) ==
    /\ Len(bytes) >= 2
    /\ bytes[1] = 31
    /\ bytes[Len(bytes)] = Len(bytes) - 2

\* pako.ungzip(bytes), for a well-formed stream
ungzip(bytes) == SubSeq(bytes, 2, Len(bytes) - 1)

DigitChar == <<"0", "1", "2", "3", "4", "5", "6", "7", "8", "9">>

\* the value of a digit character
DigitVal(c) == CHOOSE d \in 0..9 : DigitChar[d + 1] = c

RECURSIVE btoa(_)
\* base64 text of a byte sequence
btoa(bytes) ==
    IF bytes = << >> THEN << >>
    ELSE <<DigitChar[(bytes[1] \div 8) + 1], DigitChar[(bytes[1] % 8) + 1]>>
            \o btoa(Tail(bytes))

RECURSIVE atob(_)
\* atob(text) followed by the charCodeAt loop: the bytes of base64 text
atob(text) ==
    IF Len(text) < 2 THEN << >>
    ELSE <<8 * DigitVal(text[1]) + DigitVal(text[2])>> \o atob(SubSeq(text, 3, Len(text)))

\* FileReader.readAsDataURL(blob)
readAsDataURL(blob) == <<"data:application/gzip;base64", ",">> \o btoa(blob)

RECURSIVE commaFrom(_, _)
\* the position of the first "," of text at or after position k, 0 if none
commaFrom(text, k) ==
    IF k > Len(text) THEN 0 ELSE IF text[k] = "," THEN k ELSE commaFrom(text, k + 1)

\* text.split(',')[1]: the text between the first comma and the next one
split1(text) ==
    LET c1 == commaFrom(text, 1)
        c2 == commaFrom(text, c1 + 1)
    IN  SubSeq(text, c1 + 1, IF c2 = 0 THEN Len(text) ELSE c2 - 1)

\* blobToBase64 of script.js: the data URL with its prefix stripped
blobToBase64A(blob) ==
    LET result == readAsDataURL(blob)
    IN  IF commaFrom(result, 1) # 0 THEN split1(result) ELSE result

\* blobToBase64 of part_000 returns the data URL; uploadChunkToGitHub sends
\* base64.split(',')[1]
blobToBase64B(blob) == split1(readAsDataURL(blob))

\* the `content` a chunk PUT carries
chunkContent(v, blob) == IF v = "A" THEN blobToBase64A(blob) ELSE blobToBase64B(blob)

(***************************************************************************)
(* Remote paths.                                                           *)
(***************************************************************************)
\* the characters the regular expression /[/\?*:|"<>]/g replaces
PathBreaking == {"/", "?", "*", ":", "|", "\"", "<", ">"}

\* name.replace(/[/\?*:|"<>]/g, '_')
sanitize(name) == [k \in 1..Len(name) |-> IF name[k] \in PathBreaking THEN "_" ELSE name[k]]

RECURSIVE decimal(_)
\* String(n)
decimal(n) == IF n < 10 THEN <<DigitChar[n + 1]>> ELSE decimal(n \div 10) \o <<DigitChar[(n % 10) + 1]>>

RECURSIVE padStart(_, _, _)
\* str.padStart(width, fill)
padStart(str, width, fill) ==
    IF Len(str) >= width THEN str ELSE padStart(<<fill>> \o str, width, fill)

\* `${CONFIG.ASSETS_FOLDER}/${name.replace(...)}` of script.js
fileFolder(name) == <<"files", "/">> \o sanitize(name)

\* `${folder}/chunk_${String(n).padStart(5, '0')}.gz`
chunkPathA(folder, n) == folder \o <<"/", "chunk_">> \o padStart(decimal(n), 5, "0") \o <<".gz">>

\* `${fileFolder}/metadata.json`
metaPathA(folder) == folder \o <<"/", "metadata.json">>

\* `${CONFIG.ASSETS_FOLDER}/${filename}.part${n}.gz` of part_000
chunkPathB(filename, n) == <<"assets", "/">> \o filename \o <<".part">> \o decimal(n) \o <<".gz">>

\* `${CONFIG.ASSETS_FOLDER}/${filename}.meta.json` of part_000
metaPathB(filename) == <<"assets", "/">> \o filename \o <<".meta.json">>

\* a download that counts its chunks from 0
downloadChunkPathFromZero(v, name, folder, n) ==
    IF v = "A"
    THEN folder \o <<"/", "chunk_">> \o padStart(decimal(n - 1), 5, "0") \o <<".gz">>
    ELSE <<"assets", "/">> \o name \o <<".part">> \o decimal(n - 1) \o <<".gz">>

\* the path downloadChunk (downloadFile of part_000) fetches chunk n from
downloadChunkPath(v, name, folder, n) ==
    IF v = "A"
    THEN folder \o <<"/", "chunk_">> \o padStart(decimal(n), 5, "0") \o <<".gz">>
    ELSE <<"assets", "/">> \o name \o <<".part">> \o decimal(n) \o <<".gz">>

\* the path deleteFile deletes chunk n at
deleteChunkPath(v, name, folder, n) ==
    IF v = "A"
    THEN folder \o <<"/", "chunk_">> \o padStart(decimal(n), 5, "0") \o <<".gz">>
    ELSE <<"assets", "/">> \o name \o <<".part">> \o decimal(n) \o <<".gz">>

(***************************************************************************)
(* File categories: FILE_CATEGORIES and detectFileCategory, the same in    *)
(* both files.                                                             *)
(***************************************************************************)
\* Object.entries(FILE_CATEGORIES), in the order the object literal declares
FILE_CATEGORIES ==
    << [category |-> "game",
        extensions |-> << <<"i","s","o">>, <<"e","x","e">>, <<"m","s","i">>,
                          <<"d","m","g">>, <<"a","p","p">>, <<"a","p","k">>,
                          <<"o","b","b">>, <<"x","a","p","k">>, <<"g","b","a">>,
                          <<"n","e","s">>, <<"s","n","e","s">>, <<"z","i","p">> >>],
       [category |-> "archive",
        extensions |-> << <<"z","i","p">>, <<"r","a","r">>, <<"7","z">>,
                          <<"t","a","r">>, <<"g","z">>, <<"b","z","2">>,
                          <<"x","z">>, <<"i","s","o">> >>],
       [category |-> "video",
        extensions |-> << <<"m","p","4">>, <<"m","k","v">>, <<"a","v","i">>,
                          <<"m","o","v">>, <<"f","l","v">>, <<"w","m","v">>,
                          <<"w","e","b","m">>, <<"m","p","g">>, <<"m","p","e","g">>,
                          <<"m","4","v">> >>],
       [category |-> "image",
        extensions |-> << <<"j","p","g">>, <<"j","p","e","g">>, <<"p","n","g">>,
                          <<"g","i","f">>, <<"b","m","p">>, <<"s","v","g">>,
                          <<"w","e","b","p">>, <<"t","i","f","f">>, <<"i","c","o">> >>],
       [category |-> "document",
        extensions |-> << <<"p","d","f">>, <<"d","o","c">>, <<"d","o","c","x">>,
                          <<"x","l","s">>, <<"x","l","s","x">>, <<"p","p","t">>,
                          <<"p","p","t","x">>, <<"t","x","t">>, <<"r","t","f">> >>],
       [category |-> "executable",
        extensions |-> << <<"e","x","e">>, <<"m","s","i">>, <<"d","m","g">>,
                          <<"a","p","p">>, <<"s","h">>, <<"b","a","t">>,
                          <<"c","m","d">> >>],
       [category |-> "iso",
        extensions |-> << <<"i","s","o">>, <<"b","i","n">>, <<"c","u","e">> >>],
       [category |-> "apk",
        extensions |-> << <<"a","p","k">>, <<"x","a","p","k">>, <<"o","b","b">> >>] >>

UpperCase == <<"A", "B", "C", "D", "E", "F", "G", "H", "I", "J", "K", "L", "M",
               "N", "O", "P", "Q", "R", "S", "T", "U", "V", "W", "X", "Y", "Z">>
LowerCase == <<"a", "b", "c", "d", "e", "f", "g", "h", "i", "j", "k", "l", "m",
               "n", "o", "p", "q", "r", "s", "t", "u", "v", "w", "x", "y", "z">>

\* str.toLowerCase()
toLowerCase(str) ==
    [k \in 1..Len(str) |->
        IF \E j \in 1..26 : UpperCase[j] = str[k]
        THEN LowerCase[CHOOSE j \in 1..26 : UpperCase[j] = str[k]]
        ELSE str[k]]

RECURSIVE splitDot(_, _, _)
\* filename.split('.'): the pieces between the dots, `piece` being the one
\* in progress at position k
splitDot(str, k, piece) ==
    IF k > Len(str) THEN <<piece>>
    ELSE IF str[k] = "." THEN <<piece>> \o splitDot(str, k + 1, << >>)
    ELSE splitDot(str, k + 1, Append(piece, str[k]))

\* array.pop(): the last element
pop(array) == array[Len(array)]

\* data.extensions.includes(ext)
includes(extensions, ext) == \E k \in 1..Len(extensions) : extensions[k] = ext

RECURSIVE categoryFromLast(_, _)
\* a loop over the first k categories that lets a later match replace an
\* earlier one
categoryFromLast(ext, k) ==
    IF k = 0 THEN "other"
    ELSE IF includes(FILE_CATEGORIES[k].extensions, ext)
    THEN FILE_CATEGORIES[k].category
    ELSE categoryFromLast(ext, k - 1)

\* a detection in which the last matching category wins
detectFileCategoryLastWins(filename) ==
    categoryFromLast(toLowerCase(pop(splitDot(filename, 1, << >>))),
                     Len(FILE_CATEGORIES))

RECURSIVE categoryFrom(_, _)
\* the for..of loop of detectFileCategory from the k-th entry on
categoryFrom(ext, k) ==
    IF k > Len(FILE_CATEGORIES) THEN "other"
    ELSE IF includes(FILE_CATEGORIES[k].extensions, ext)
    THEN FILE_CATEGORIES[k].category
    ELSE categoryFrom(ext, k + 1)

detectFileCategory(filename) ==
    LET ext == toLowerCase(pop(splitDot(filename, 1, << >>)))
    IN  categoryFrom(ext, 1)

(***************************************************************************)
(* Program constants, scaled to the model: the code has CHUNK_SIZE 20 MB   *)
(* (90 MB in part_000) and PARALLEL_BATCH 5.                               *)
(***************************************************************************)
CHUNK_SIZE == 2
PARALLEL_BATCH == 2
\* `while (attempt < 3)`, CONFIG.RETRY_ATTEMPTS in part_000
RETRY_ATTEMPTS == 3
\* CONFIG.RETRY_DELAY of part_000, in ms
RETRY_DELAY == 2000

\* the browser sessions (tabs) working on the same repository
Sessions == {1, 2}

\* batches of one chunk more than PARALLEL_BATCH
BatchSizeOneMore(v) == IF v = "A" THEN PARALLEL_BATCH + 1 ELSE 1

\* the chunk requests one batch issues together: uploadChunks of part_000 is
\* a sequential loop
BatchSize(v) == IF v = "A" THEN PARALLEL_BATCH ELSE 1

(***************************************************************************)
(* State.                                                                  *)
(***************************************************************************)
VARIABLES
    variant,    \* "A": src/script.js is deployed, "B": src/unnamed/part_000
    appState,   \* per session: selectedFile, isUploading, isDownloading, dataJson,
                \* settings
    compressionLib, \* per session: the compression library has loaded in the page
    rendered,   \* per session: the file items of #filesList (entries shown)
    loads,      \* per session: loadUploadedFiles calls awaiting syncRegistry
    resetTimer, \* per session: the setTimeout of a successful upload is pending
    upl,        \* per session: the startUpload call in progress, and its report
    bg,         \* chunk uploads still retrying after their batch was rejected
    objects,    \* remote store: path -> object (chunks and metadata objects)
    dataFile,   \* remote store: data.json
    now,        \* the clock read by Date.now() / new Date()
    ops,        \* per session: user actions left
    faults,     \* failures the remote store may still answer with
    dl,         \* per session: the downloadFile call in progress, and its report
    del,        \* per session: the deleteFile call in progress, and its report
    disk,       \* the files the users can select
    chk         \* the chunker exercised on its own: phase, blob, size, chunks, merged

vars == <<variant, compressionLib, appState, rendered, loads, resetTimer, upl, bg, dl, del, objects,
          dataFile, now, ops, faults, disk, chk>>

ChkIdle == [phase |-> "idle", blob |-> << >>, size |-> 1, chunks |-> << >>, merged |-> << >>]

\* appState.dataJson as constructed
DefaultDataJson == [files |-> << >>, lastUpdated |-> 0]

\* let appState = {...}
\* the content of a data.json that is not JSON: a document no session
\* writes, which JSON.parse rejects
Garbled == [files |-> << >>, lastUpdated |-> -1]

\* JSON.parse(atob(data.content)) returns
parses(doc) == doc # Garbled

\* appState.settings, as the set of its fields that are not the empty string
AllSettings == {"token", "owner", "repo", "branch"}

\* return appState.settings.token && appState.settings.owner && appState.settings.repo
validateSettings(settings) == {"token", "owner", "repo"} \subseteq settings

\* the page after DOMContentLoaded, its settings loaded from the session
\* storage.  parseFailed records the history of the session: its last read
\* of data.json got a content that did not parse
InitAppState ==
    [selectedFile |-> << >>, isUploading |-> FALSE, isDownloading |-> FALSE,
     dataJson |-> DefaultDataJson, settings |-> AllSettings, parseFailed |-> FALSE]

NoReq == [path |-> << >>, meta |-> [fileName |-> << >>, chunkCount |-> 0]]

\* the interval callback of waitForCompressionLib, given whether the library
\* is there and the value of attempts: a wait that carries on when it runs out
checkLibCarriesOn(lib, attempts) ==
    IF lib THEN "resolve" ELSE IF attempts > maxAttempts THEN "resolve" ELSE "again"

\* the interval callback of waitForCompressionLib
checkLib(lib, attempts) ==
    IF lib THEN "resolve" ELSE IF attempts > maxAttempts THEN "reject" ELSE "again"

\* afterParseFailure records the history of the call: it began in a session
\* whose last read of data.json had not parsed; prev records the entry of
\* the session's previous upload when that one reported success (0 otherwise).
\* attempts is the counter of waitForCompressionLib.  tasks holds, for each
\* chunk of the batch in flight, its failed attempts, and waits the delays
\* (ms) it has waited between its attempts.  progress is the number of
\* chunks out of chunks.length that the last updateProgress('uploadProgress')
\* of the call reported (0: none yet).  denied records the history of the
\* call: one of its chunk PUTs was answered with an authorization failure
UplIdle ==
    [pc |-> "idle", file |-> << >>, base |-> << >>, chunks |-> << >>, i |-> 0,
     tasks |-> << >>, waits |-> << >>, progress |-> 0, denied |-> FALSE, req |-> NoReq, content |-> DefaultDataJson, sha |-> << >>,
     result |-> "none", entryId |-> 0, afterParseFailure |-> FALSE, attempts |-> 0,
     prev |-> 0]

\* a remote object: the base64 text of a chunk, or the fields of a metadata object
ChunkObj(text) == [text |-> text, meta |-> NoReq.meta]
MetaObj(meta) == [text |-> << >>, meta |-> meta]

\* f with x mapped to y
Put(f, x, y) == [z \in DOMAIN f \cup {x} |-> IF z = x THEN y ELSE f[z]]
\* f without x
Drop(f, x) == [z \in DOMAIN f \ {x} |-> f[z]]

(***************************************************************************)
(* Remote object store (the contents API): an answer is "ok" when the      *)
(* store served the request, "err" when it failed it (5xx, rate limit).    *)
(***************************************************************************)
Answers == {"ok", "err"}
CanAnswer(r) == r = "ok" \/ faults > 0
Spend(r) == faults' = IF r = "err" THEN faults - 1 ELSE faults

\* PUT of a new object without sha: created unless the path exists (422)
PutCreates(objs, path, r) == r = "ok" /\ path \notin DOMAIN objs

\* PUT of data.json with the sha the caller holds (<< >>: none)
PutAccepted(file, sha, r) ==
    /\ r = "ok"
    /\ IF file.exists THEN sha = <<file.doc>> ELSE sha = << >>

(***************************************************************************)
(* User actions.                                                           *)
(***************************************************************************)
handleFileSelect(s, f) ==
    /\ ops[s] > 0
    /\ ops' = [ops EXCEPT ![s] = @ - 1]
    /\ appState' = [appState EXCEPT ![s].selectedFile = <<f>>]
    /\ UNCHANGED <<variant, compressionLib, rendered, loads, resetTimer, upl, bg, objects, dataFile,
                   now, faults, disk, chk, dl, del>>

\* the setTimeout callback of a successful upload
resetSelection(s) ==
    /\ resetTimer[s]
    /\ resetTimer' = [resetTimer EXCEPT ![s] = FALSE]
    /\ appState' = [appState EXCEPT ![s].selectedFile = << >>]
    /\ UNCHANGED <<variant, compressionLib, rendered, loads, upl, bg, objects, dataFile, now, ops,
                   faults, disk, chk, dl, del>>

\* loadUploadedFiles up to its await of syncRegistry: without valid settings
\* the list is replaced by a hint and nothing is requested
refreshList(s) ==
    IF validateSettings(appState[s].settings)
    THEN /\ loads' = [loads EXCEPT ![s] = Min(@ + 1, MaxLoads)]
         /\ UNCHANGED rendered
    ELSE /\ rendered' = [rendered EXCEPT ![s] = << >>]
         /\ UNCHANGED loads

\* loadUploadedFiles called by the user (the files tab is opened)
loadUploadedFiles(s) ==
    /\ ops[s] > 0
    /\ loads[s] < MaxLoads
    /\ ops' = [ops EXCEPT ![s] = @ - 1]
    /\ refreshList(s)
    /\ UNCHANGED <<variant, compressionLib, appState, resetTimer, upl, bg, objects, dataFile,
                   now, faults, disk, chk, dl, del>>

\* the settings form submitted: the fields are stored before they are validated
saveSettings(s, fields) ==
    /\ ops[s] > 0
    /\ ops' = [ops EXCEPT ![s] = @ - 1]
    /\ appState' = [appState EXCEPT ![s].settings = fields]
    /\ UNCHANGED <<variant, compressionLib, rendered, loads, resetTimer, upl, bg, objects, dataFile,
                   now, faults, disk, chk, dl, del>>

\* clearSettings, confirmed
clearSettings(s) ==
    /\ ops[s] > 0
    /\ ops' = [ops EXCEPT ![s] = @ - 1]
    /\ appState' = [appState EXCEPT ![s].settings = {"branch"}]
    /\ UNCHANGED <<variant, compressionLib, rendered, loads, resetTimer, upl, bg, objects, dataFile,
                   now, faults, disk, chk, dl, del>>

\* syncRegistry's GET answered, and the rest of loadUploadedFiles.  When the
\* content does not parse the catch logs and appState.dataJson stays
syncRegistry(s, r) ==
    /\ loads[s] > 0
    /\ CanAnswer(r) /\ Spend(r)
    /\ loads' = [loads EXCEPT ![s] = @ - 1]
    /\ LET found == r = "ok" /\ dataFile.exists
           dj == IF found /\ parses(dataFile.doc) THEN dataFile.doc
                 ELSE appState[s].dataJson
       IN  /\ appState' = [appState EXCEPT ![s].dataJson = dj,
                                           ![s].parseFailed =
                                               IF found THEN ~parses(dataFile.doc) ELSE @]
           /\ rendered' = [rendered EXCEPT ![s] = dj.files]
    /\ UNCHANGED <<variant, compressionLib, resetTimer, upl, bg, objects, dataFile, now, ops, disk, chk, dl, del>>

(***************************************************************************)
(* Upload: startUpload and what it awaits.                                 *)
(***************************************************************************)
\* a startUpload without its finally: isUploading stays as it was
UploadFailsFlagKept(s, u, exhausted, running) ==
    /\ upl' = [upl EXCEPT ![s] = [u EXCEPT !.pc = "idle", !.tasks = exhausted,
                                          !.waits = [m \in DOMAIN exhausted |-> @[m]],
                                          !.result = "failed"]]
    /\ UNCHANGED appState
    /\ bg' = bg \cup running

\* a catch of startUpload that reports the upload as done
UploadFailsAsSuccess(s, u, exhausted, running) ==
    /\ upl' = [upl EXCEPT ![s] = [u EXCEPT !.pc = "idle", !.tasks = exhausted,
                                          !.waits = [m \in DOMAIN exhausted |-> @[m]],
                                          !.result = "success"]]
    /\ appState' = [appState EXCEPT ![s].isUploading = FALSE]
    /\ bg' = bg \cup running

\* the catch and finally of startUpload, u being the call as the throw
\* leaves it.  `exhausted` holds the chunk whose
\* attempts ran out, with its attempt count (empty when another error was
\* thrown); the chunk uploads of the rejected batch that are still running
\* go on in the background
UploadFails(s, u, exhausted, running) ==
    /\ upl' = [upl EXCEPT ![s] = [u EXCEPT !.pc = "idle", !.tasks = exhausted,
                                          !.waits = [m \in DOMAIN exhausted |-> @[m]],
                                          !.result = "failed"]]
    /\ appState' = [appState EXCEPT ![s].isUploading = FALSE]
    /\ bg' = bg \cup running

\* the chunk path uploadChunk / uploadChunks derives for chunk n (1-based)
chunkPath(v, base, n) == IF v = "A" THEN chunkPathA(base, n) ELSE chunkPathB(base, n)

\* the tasks of the batch that starts after chunk i (0-based) of total
BatchTasks(v, i, total) == [n \in (i + 1)..Min(i + BatchSize(v), total) |-> 0]

\* the delays waited so far by the chunks of that batch: none
BatchWaits(v, i, total) == [n \in (i + 1)..Min(i + BatchSize(v), total) |-> << >>]

\* the delay the catch of uploadChunk / uploadChunkToGitHub waits after
\* attempt++: delay(1000 * attempt) in script.js, delay(CONFIG.RETRY_DELAY)
\* in part_000
retryDelay(v, attempt) == IF v = "A" THEN 1000 * attempt ELSE RETRY_DELAY

\* the click on the upload button.  part_000 has no isUploading test; the
\* model follows one startUpload call of a session at a time
startUpload(s) ==
    /\ ops[s] > 0
    /\ ops' = [ops EXCEPT ![s] = @ - 1]
    /\ variant = "B" => upl[s].pc = "idle"
    /\ IF \/ appState[s].selectedFile = << >>
          \/ variant = "A" /\ appState[s].isUploading
          \/ ~validateSettings(appState[s].settings)
       THEN UNCHANGED <<appState, upl>>
       ELSE /\ appState' = [appState EXCEPT ![s].isUploading =
                                               IF variant = "A" THEN TRUE ELSE @]
            /\ upl' = [upl EXCEPT ![s] = [UplIdle EXCEPT
                             !.pc = IF variant = "A" THEN "compress" ELSE "wait",
                             !.file = appState[s].selectedFile,
                             !.afterParseFailure = appState[s].parseFailed,
                             !.prev = IF upl[s].result = "success"
                                      THEN upl[s].entryId ELSE 0]]
    /\ UNCHANGED <<variant, compressionLib, rendered, loads, resetTimer, bg, objects, dataFile, now,
                   faults, disk, chk, dl, del>>

\* part_000: a tick of the wait of startUpload for the compression library.
\* Without the library startUpload returns with an error message
waitUpload(s) ==
    /\ upl[s].pc = "wait"
    /\ LET outcome == checkLib(compressionLib[s], upl[s].attempts)
       IN  /\ upl' = [upl EXCEPT ![s] = [@ EXCEPT
                        !.attempts = IF compressionLib[s] THEN @ ELSE @ + 1,
                        !.pc = IF outcome = "again" THEN "wait"
                               ELSE IF outcome = "resolve" THEN "compress"
                               ELSE "idle",
                        !.result = IF outcome = "reject" THEN "failed" ELSE @]]
           /\ appState' = [appState EXCEPT ![s].isUploading =
                               IF outcome = "resolve" THEN TRUE ELSE @]
    /\ UNCHANGED <<variant, compressionLib, rendered, loads, resetTimer, bg, objects,
                   dataFile, now, ops, faults, disk, chk, dl, del>>

\* compressFile resolved: createChunks, then the first batch of chunk PUTs.
\* Without the compression library compressFile rejects
uploadCompressed(s) ==
    /\ upl[s].pc = "compress"
    /\ LET compressed == gzip(upl[s].file[1].data)
           chunks == createChunks(compressed, CHUNK_SIZE)
           sel == appState[s].selectedFile
       IN  IF sel = << >> \/ ~compressionLib[s]
           THEN UploadFails(s, upl[s], << >>, {})
           ELSE /\ upl' = [upl EXCEPT ![s] = [@ EXCEPT
                            !.pc = "transfer",
                            !.base = IF variant = "A" THEN fileFolder(sel[1].name)
                                     ELSE sel[1].name,
                            !.chunks = chunks,
                            !.i = 0,
                            !.tasks = BatchTasks(variant, 0, Len(chunks)),
                            !.waits = BatchWaits(variant, 0, Len(chunks))]]
                /\ UNCHANGED <<appState, bg>>
    /\ UNCHANGED <<variant, compressionLib, rendered, loads, resetTimer, objects, dataFile, now, ops,
                   faults, disk, chk, dl, del>>

\* the request saveMetadata / saveFileMetadata sends
metaRequest(v, base, fileName, chunkCount) ==
    [path |-> IF v = "A" THEN metaPathA(base) ELSE metaPathB(fileName),
     meta |-> [fileName |-> fileName, chunkCount |-> chunkCount]]

\* a batch loop that ends after its first batch
loopEnds(i, total) == FALSE

\* the test of the batch loop of uploadChunksParallel / uploadChunks, with
\* i advanced past the batch that completed: `i < total`
loopGoesOn(i, total) == i < total

\* a catch that allows one attempt more than RETRY_ATTEMPTS
retryOnceMore(attempt) == attempt <= RETRY_ATTEMPTS

\* the test of the catch of uploadChunk / uploadChunkToGitHub, after
\* attempt++: the chunk is tried again (otherwise the error is thrown)
retry(attempt) == attempt < RETRY_ATTEMPTS

\* a catch that deletes the chunk objects the upload had written
rolledBack(objs, written) == [p \in DOMAIN objs \ written |-> objs[p]]

\* the store after the catch of startUpload, `written` being the paths the
\* upload had stored chunks at: the catch logs and reports, it sends no DELETE
leftByCatch(objs, written) == objs

\* one attempt of uploadChunk / uploadChunkToGitHub answered: "ok", "err",
\* or "auth" when the store refuses the token (401, 403).  Every answer that
\* is not a success is thrown and caught alike
uploadChunk(s, n, r) ==
    /\ upl[s].pc = "transfer"
    /\ n \in DOMAIN upl[s].tasks
    /\ CanAnswer(r) /\ Spend(r)
    /\ LET u == upl[s]
           path == chunkPath(variant, u.base, n)
           total == Len(u.chunks)
           left == Drop(u.tasks, n)
           sel == appState[s].selectedFile
           reported == Min(u.i + BatchSize(variant), total)
           written == {chunkPath(variant, u.base, m) : m \in (1..reported) \ DOMAIN u.tasks}
       IN  IF PutCreates(objects, path, r)
           THEN /\ objects' = Put(objects, path, ChunkObj(chunkContent(variant, u.chunks[n])))
                /\ IF DOMAIN left # {}
                   THEN /\ upl' = [upl EXCEPT ![s] = [@ EXCEPT
                                    !.tasks = left, !.waits = Drop(@, n)]]
                        /\ UNCHANGED <<appState, bg>>
                   ELSE IF loopGoesOn(u.i + BatchSize(variant), total)
                   THEN /\ upl' = [upl EXCEPT ![s] = [@ EXCEPT
                                    !.i = u.i + BatchSize(variant),
                                    !.progress = reported,
                                    !.tasks = BatchTasks(variant, u.i + BatchSize(variant), total),
                                    !.waits = BatchWaits(variant, u.i + BatchSize(variant), total)]]
                        /\ UNCHANGED <<appState, bg>>
                   ELSE IF sel = << >>
                   THEN UploadFails(s, [u EXCEPT !.progress = reported], << >>, {})
                   ELSE /\ upl' = [upl EXCEPT ![s] = [@ EXCEPT
                                    !.pc = "meta", !.tasks = << >>, !.waits = << >>,
                                    !.progress = reported,
                                    !.req = metaRequest(variant, u.base, sel[1].name, total)]]
                        /\ UNCHANGED <<appState, bg>>
           ELSE /\ objects' = IF retry(u.tasks[n] + 1) THEN objects
                               ELSE leftByCatch(objects, written)
                /\ IF retry(u.tasks[n] + 1)
                   THEN /\ upl' = [upl EXCEPT ![s] = [@ EXCEPT
                                    !.tasks[n] = @ + 1,
                                    !.denied = @ \/ r = "auth",
                                    !.waits[n] = Append(@, retryDelay(variant,
                                                                      u.tasks[n] + 1))]]
                        /\ UNCHANGED <<appState, bg>>
                   ELSE UploadFails(s, [u EXCEPT !.denied = @ \/ r = "auth"],
                                    [m \in {n} |-> u.tasks[n] + 1],
                          {[path |-> chunkPath(variant, u.base, m),
                            text |-> chunkContent(variant, u.chunks[m]),
                            attempt |-> left[m]] : m \in DOMAIN left})
    /\ UNCHANGED <<variant, compressionLib, rendered, loads, resetTimer, dataFile, now, ops, disk, chk, dl, del>>

\* one attempt of a chunk upload whose batch was already rejected
uploadChunkOrphan(t, r) ==
    /\ t \in bg
    /\ CanAnswer(r) /\ Spend(r)
    /\ IF PutCreates(objects, t.path, r)
       THEN /\ objects' = Put(objects, t.path, ChunkObj(t.text))
            /\ bg' = bg \ {t}
       ELSE /\ UNCHANGED objects
            /\ bg' = (bg \ {t}) \cup
                     (IF retry(t.attempt + 1)
                      THEN {[t EXCEPT !.attempt = @ + 1]} ELSE {})
    /\ UNCHANGED <<variant, compressionLib, appState, rendered, loads, resetTimer, upl, dataFile, now,
                   ops, disk, chk, dl, del>>

\* the entry updateRegistry / updateDataJson builds
fileEntry(v, id, fileName, chunkCount) ==
    [id |-> id, name |-> fileName, chunkCount |-> chunkCount,
     folder |-> IF v = "A" THEN fileFolder(fileName) ELSE << >>]

\* appState.dataJson.files.push(entry); appState.dataJson.lastUpdated = new Date()
pushEntry(dj, entry, t) == [files |-> Append(dj.files, entry), lastUpdated |-> t]

\* the metadata PUT answered (its result is not looked at); updateRegistry /
\* updateDataJson up to the GET of data.json
saveMetadata(s, r) ==
    /\ upl[s].pc = "meta"
    /\ CanAnswer(r) /\ Spend(r)
    /\ LET u == upl[s]
           sel == appState[s].selectedFile
       IN  /\ objects' = IF PutCreates(objects, u.req.path, r)
                         THEN Put(objects, u.req.path, MetaObj(u.req.meta)) ELSE objects
           /\ IF sel = << >>
              THEN /\ UploadFails(s, u, << >>, {})
                   /\ UNCHANGED now
              ELSE LET entry == fileEntry(variant, now, sel[1].name, Len(u.chunks))
                       dj == pushEntry(appState[s].dataJson, entry, now)
                   IN  /\ appState' = [appState EXCEPT ![s].dataJson = dj]
                       /\ upl' = [upl EXCEPT ![s] = [@ EXCEPT
                                    !.pc = "regGet", !.content = dj, !.entryId = entry.id]]
                       /\ now' = now + 1
                       /\ UNCHANGED bg
    /\ UNCHANGED <<variant, compressionLib, rendered, loads, resetTimer, dataFile, ops, disk, chk, dl, del>>

\* the sha updateRegistry takes from its GET of data.json
shaOf(file, r) == IF r = "ok" /\ file.exists THEN <<file.doc>> ELSE << >>

\* updateRegistry's GET of data.json answered
uploadRegistryGet(s, r) ==
    /\ upl[s].pc = "regGet"
    /\ CanAnswer(r) /\ Spend(r)
    /\ upl' = [upl EXCEPT ![s] = [@ EXCEPT !.pc = "regPut", !.sha = shaOf(dataFile, r)]]
    /\ UNCHANGED <<variant, compressionLib, appState, rendered, loads, resetTimer, bg, objects, dataFile,
                   now, ops, disk, chk, dl, del>>

\* updateRegistry's PUT of data.json answered (its result is not looked at),
\* and the rest of startUpload
uploadRegistryPut(s, r) ==
    /\ upl[s].pc = "regPut"
    /\ CanAnswer(r) /\ Spend(r)
    /\ dataFile' = IF PutAccepted(dataFile, upl[s].sha, r)
                   THEN [exists |-> TRUE, doc |-> upl[s].content] ELSE dataFile
    /\ upl' = [upl EXCEPT ![s] = [@ EXCEPT !.pc = "idle", !.result = "success"]]
    /\ appState' = [appState EXCEPT ![s].isUploading = FALSE]
    /\ refreshList(s)
    /\ resetTimer' = [resetTimer EXCEPT ![s] = TRUE]
    /\ UNCHANGED <<variant, compressionLib, bg, objects, now, ops, disk, chk, dl, del>>

(***************************************************************************)
(* Download: downloadFile and what it awaits.                              *)
(***************************************************************************)
\* got: the bytes fetched, by chunk index; order: the indices in the order
\* their fetches completed; out: << >>, or <<bytes>> once a blob was saved;
\* missing: the chunk of the error `Chunk n not found`; errs: the requests of
\* this download the store failed; reported: the entries of the uploads that
\* had reported success when Download was clicked; progress: the number of
\* chunks out of chunkCount that the last updateProgress of the call reported
DlIdle ==
    [pc |-> "idle", name |-> << >>, folder |-> << >>, chunkCount |-> 0, i |-> 0,
     pending |-> {}, got |-> << >>, order |-> << >>, chunks |-> << >>,
     result |-> "none", out |-> << >>, missing |-> 0, errs |-> 0, entryId |-> 0,
     reported |-> {}, attempts |-> 0, progress |-> 0]

\* the indices (1-based) of the batch that starts after chunk i (0-based)
BatchIndices(v, i, chunkCount) == (i + 1)..Min(i + BatchSize(v), chunkCount)

\* a Promise.all that yields the n results of the batch after chunk i in the
\* order their fetches completed
promiseAllCompletion(got, i, n, order) == [k \in 1..n |-> got[order[i + k]]]

\* what Promise.all resolves to: the n results of the batch after chunk i,
\* in the order of the batch
promiseAll(got, i, n, order) == [k \in 1..n |-> got[i + k]]

\* a catch of downloadFile that saves what was fetched so far
DownloadFailsPartial(s, d) ==
    /\ dl' = [dl EXCEPT ![s] = [d EXCEPT !.pc = "idle", !.pending = {},
                                       !.result = "failed",
                                       !.out = <<combineChunks(d.chunks)>>]]
    /\ appState' = [appState EXCEPT ![s].isDownloading = FALSE]

\* the catch and finally of downloadFile
DownloadFails(s, d) ==
    /\ dl' = [dl EXCEPT ![s] = [d EXCEPT !.pc = "idle", !.pending = {},
                                       !.result = "failed"]]
    /\ appState' = [appState EXCEPT ![s].isDownloading = FALSE]

\* combineChunks, ungzip and the save of the blob; then finally.  Without
\* the compression library the call of ungzip throws
DownloadFinishes(s, d, chunks) ==
    LET combined == combineChunks(chunks)
    IN  /\ dl' = [dl EXCEPT ![s] =
                    IF compressionLib[s] /\ ungzipOk(combined)
                    THEN [d EXCEPT !.pc = "idle", !.pending = {}, !.chunks = chunks,
                                   !.result = "success", !.out = <<ungzip(combined)>>]
                    ELSE [d EXCEPT !.pc = "idle", !.pending = {}, !.chunks = chunks,
                                   !.result = "failed"]]
        /\ appState' = [appState EXCEPT ![s].isDownloading = FALSE]

\* the click on Download of the k-th file item.  part_000 takes only the name
\* and reads the chunk count from the metadata object
downloadFile(s, k) ==
    /\ ops[s] > 0
    /\ ops' = [ops EXCEPT ![s] = @ - 1]
    /\ k \in 1..Len(rendered[s])
    /\ variant = "B" => dl[s].pc = "idle"
    /\ LET e == rendered[s][k]
           d == [DlIdle EXCEPT !.name = e.name, !.folder = e.folder, !.entryId = e.id,
                   !.reported = {upl[u].entryId : u \in {x \in Sessions :
                                                          upl[x].result = "success"}}]
       IN  IF variant = "A"
           THEN IF appState[s].isDownloading
                THEN UNCHANGED <<appState, dl>>
                ELSE IF e.chunkCount = 0
                THEN DownloadFinishes(s, [d EXCEPT !.chunkCount = 0], << >>)
                ELSE /\ dl' = [dl EXCEPT ![s] = [d EXCEPT
                                 !.pc = "fetch", !.chunkCount = e.chunkCount,
                                 !.pending = BatchIndices(variant, 0, e.chunkCount)]]
                     /\ appState' = [appState EXCEPT ![s].isDownloading = TRUE]
           ELSE /\ dl' = [dl EXCEPT ![s] = [d EXCEPT !.pc = "wait"]]
                /\ UNCHANGED appState
    /\ UNCHANGED <<variant, compressionLib, rendered, loads, resetTimer, upl, bg, del, objects, dataFile,
                   now, faults, disk, chk>>

\* part_000: a tick of the wait of downloadFile for the compression library;
\* when it resolves the metadata object is requested
waitDownload(s) ==
    /\ dl[s].pc = "wait"
    /\ LET outcome == checkLib(compressionLib[s], dl[s].attempts)
       IN  dl' = [dl EXCEPT ![s] = [@ EXCEPT
                     !.attempts = IF compressionLib[s] THEN @ ELSE @ + 1,
                     !.pc = IF outcome = "again" THEN "wait"
                            ELSE IF outcome = "resolve" THEN "meta"
                            ELSE "idle",
                     !.result = IF outcome = "reject" THEN "failed" ELSE @]]
    /\ UNCHANGED <<variant, compressionLib, appState, rendered, loads, resetTimer, upl, bg,
                   del, objects, dataFile, now, ops, faults, disk, chk>>

\* the script of the compression library finishes loading
libLoads(s) ==
    /\ ~compressionLib[s]
    /\ compressionLib' = [compressionLib EXCEPT ![s] = TRUE]
    /\ UNCHANGED <<variant, appState, rendered, loads, resetTimer, upl, bg, dl, del,
                   objects, dataFile, now, ops, faults, disk, chk>>

\* a loop bound one past the chunk count of the metadata
chunkCountOneMore(obj) == obj.meta.chunkCount + 1

\* metadata.chunkCount of the parsed metadata object: the bound of the loop
\* of downloadFile
chunkCountOf(obj) == obj.meta.chunkCount

\* part_000: the GET of the metadata object answered
downloadMetadata(s, r) ==
    /\ dl[s].pc = "meta"
    /\ CanAnswer(r) /\ Spend(r)
    /\ LET d == [dl[s] EXCEPT !.errs = IF r = "err" THEN @ + 1 ELSE @]
           path == metaPathB(d.name)
       IN  IF r = "ok" /\ path \in DOMAIN objects
           THEN LET n == chunkCountOf(objects[path])
                IN  IF n = 0
                    THEN DownloadFinishes(s, d, << >>)
                    ELSE /\ dl' = [dl EXCEPT ![s] = [d EXCEPT
                                     !.pc = "fetch", !.chunkCount = n,
                                     !.pending = BatchIndices(variant, 0, n)]]
                         /\ UNCHANGED appState
           ELSE DownloadFails(s, d)
    /\ UNCHANGED <<variant, compressionLib, rendered, loads, resetTimer, upl, bg, del, objects, dataFile,
                   now, ops, disk, chk>>

\* the GET of chunk n answered (downloadChunk; the loop body of part_000)
downloadChunk(s, n, r) ==
    /\ dl[s].pc = "fetch"
    /\ n \in dl[s].pending
    /\ CanAnswer(r) /\ Spend(r)
    /\ LET d == [dl[s] EXCEPT !.errs = IF r = "err" THEN @ + 1 ELSE @]
           path == downloadChunkPath(variant, d.name, d.folder, n)
       IN  IF r = "ok" /\ path \in DOMAIN objects
           THEN LET got == Put(d.got, n, atob(objects[path].text))
                    order == Append(d.order, n)
                    left == d.pending \ {n}
                    next == d.i + BatchSize(variant)
                    chunks == d.chunks \o promiseAll(got, d.i,
                                                     Min(next, d.chunkCount) - d.i, order)
                    shown == IF variant = "A" THEN Len(chunks) ELSE d.progress
                IN  IF left # {}
                    THEN /\ dl' = [dl EXCEPT ![s] = [d EXCEPT
                                     !.got = got, !.order = order, !.pending = left]]
                         /\ UNCHANGED appState
                    ELSE IF next < d.chunkCount
                    THEN /\ dl' = [dl EXCEPT ![s] = [d EXCEPT
                                     !.got = got, !.order = order, !.chunks = chunks,
                                     !.i = next, !.progress = shown,
                                     !.pending = BatchIndices(variant, next, d.chunkCount)]]
                         /\ UNCHANGED appState
                    ELSE DownloadFinishes(s, [d EXCEPT !.got = got, !.order = order,
                                                       !.progress = shown],
                                          chunks)
           ELSE DownloadFails(s, [d EXCEPT !.missing = n])
    /\ UNCHANGED <<variant, compressionLib, rendered, loads, resetTimer, upl, bg, del, objects, dataFile,
                   now, ops, disk, chk>>

(***************************************************************************)
(* Delete: deleteFile and what it awaits.                                  *)
(***************************************************************************)
\* entry, whole, absent, afterParseFailure, tried and failedAt record the
\* history of the call: the entry of that name the remote registry held at the
\* click, whether the repository then held all its objects, whether neither
\* the remote registry nor the session's copy held such an entry, whether the
\* session's last read of data.json had not parsed, the paths a request was
\* sent for, and the paths whose GET or DELETE the store did not serve
DelIdle ==
    [pc |-> "idle", name |-> << >>, folder |-> << >>, queue |-> << >>, found |-> FALSE,
     sha |-> << >>, content |-> DefaultDataJson, result |-> "none",
     entry |-> << >>, whole |-> FALSE, absent |-> FALSE, afterParseFailure |-> FALSE,
     tried |-> {}, failedAt |-> {}]

\* appState.dataJson.files.find(f => f.name === name): << >> when undefined
findEntry(files, name) ==
    LET hits == {k \in 1..Len(files) : files[k].name = name}
    IN  IF hits = {} THEN << >>
        ELSE <<files[CHOOSE k \in hits : \A h \in hits : k <= h]>>

\* appState.dataJson.files.filter(f => f.name !== name)
RECURSIVE filterName(_, _)
filterName(files, name) ==
    IF files = << >> THEN << >>
    ELSE (IF files[1].name # name THEN <<files[1]>> ELSE << >>)
            \o filterName(Tail(files), name)

\* the chunk paths deleteFile walks, in its order
chunkPaths(v, name, folder, count) ==
    [n \in 1..count |-> deleteChunkPath(v, name, folder, n)]

\* the path of chunk n derived from a FileEntry
entryChunkPath(v, e, n) == IF v = "A" THEN chunkPathA(e.folder, n) ELSE chunkPathB(e.name, n)

\* the path of the metadata object derived from a FileEntry
entryMetaPath(v, e) == IF v = "A" THEN metaPathA(e.folder) ELSE metaPathB(e.name)

\* the repository holds every chunk and the metadata of the entry
entryWhole(v, e, objs) ==
    /\ \A n \in 1..e.chunkCount : entryChunkPath(v, e, n) \in DOMAIN objs
    /\ entryMetaPath(v, e) \in DOMAIN objs

\* the catch of deleteFile
DeleteFails(s, d) ==
    del' = [del EXCEPT ![s] = [d EXCEPT !.pc = "idle", !.queue = << >>,
                                      !.result = "failed"]]

\* deleteFile once the objects in its queue are dealt with: script.js looks
\* the entry up and walks its chunks; then the entry is filtered out and the
\* registry update begins, up to its GET of data.json
DeleteContinues(s, d) ==
    LET entry == findEntry(appState[s].dataJson.files, d.name)
    IN  IF variant = "A" /\ ~d.found /\ entry = << >>
        THEN /\ DeleteFails(s, d)
             /\ UNCHANGED <<appState, now>>
        ELSE IF variant = "A" /\ ~d.found /\ entry[1].chunkCount > 0
        THEN /\ del' = [del EXCEPT ![s] = [d EXCEPT
                          !.pc = "objGet", !.found = TRUE,
                          !.queue = chunkPaths(variant, d.name, d.folder,
                                               entry[1].chunkCount)]]
             /\ UNCHANGED <<appState, now>>
        ELSE LET kept == filterName(appState[s].dataJson.files, d.name)
                 dj == IF variant = "A"
                       THEN pushEntry([files |-> kept,
                                       lastUpdated |-> appState[s].dataJson.lastUpdated],
                                      fileEntry(variant, now, << >>, 0), now)
                       ELSE [files |-> kept, lastUpdated |-> now]
             IN  /\ appState' = [appState EXCEPT ![s].dataJson = dj]
                 /\ del' = [del EXCEPT ![s] = [d EXCEPT
                              !.pc = "regGet", !.found = TRUE, !.queue = << >>,
                              !.content = dj]]
                 /\ now' = now + 1

\* the click on Delete of the k-th file item, confirmed
deleteFile(s, k) ==
    /\ ops[s] > 0
    /\ ops' = [ops EXCEPT ![s] = @ - 1]
    /\ k \in 1..Len(rendered[s])
    /\ del[s].pc = "idle"
    /\ LET e == rendered[s][k]
           remote == findEntry(dataFile.doc.files, e.name)
           entry == findEntry(appState[s].dataJson.files, e.name)
           d == [DelIdle EXCEPT !.name = e.name, !.folder = e.folder,
                                !.entry = remote,
                                !.whole = remote # << >> /\ entryWhole(variant, remote[1], objects),
                                !.absent = remote = << >> /\ entry = << >>,
                                !.afterParseFailure = appState[s].parseFailed]
       IN  IF variant = "A"
           THEN /\ del' = [del EXCEPT ![s] = [d EXCEPT !.pc = "objGet",
                                                !.queue = <<metaPathA(e.folder)>>]]
                /\ UNCHANGED <<appState, now>>
           ELSE IF entry = << >>
           THEN /\ DeleteFails(s, d)
                /\ UNCHANGED <<appState, now>>
           ELSE /\ del' = [del EXCEPT ![s] = [d EXCEPT !.pc = "objGet", !.found = TRUE,
                             !.queue = Append(chunkPaths(variant, e.name, e.folder,
                                                         entry[1].chunkCount),
                                              metaPathB(e.name))]]
                /\ UNCHANGED <<appState, now>>
    /\ UNCHANGED <<variant, compressionLib, rendered, loads, resetTimer, upl, bg, dl, objects, dataFile,
                   faults, disk, chk>>

\* deleteGitHubFile / deleteFileFromGitHub: the GET of the object answered.
\* script.js returns when the GET is not ok; part_000 goes on without a sha
deleteObjectGet(s, r) ==
    /\ del[s].pc = "objGet"
    /\ CanAnswer(r) /\ Spend(r)
    /\ LET path == del[s].queue[1]
           d == [del[s] EXCEPT !.tried = @ \cup {path},
                               !.failedAt = IF r = "ok" THEN @ ELSE @ \cup {path}]
           ok == r = "ok" /\ path \in DOMAIN objects
       IN  IF ok \/ variant = "B"
           THEN /\ del' = [del EXCEPT ![s] = [d EXCEPT !.pc = "objDelete",
                             !.sha = IF ok THEN <<objects[path]>> ELSE << >>]]
                /\ UNCHANGED <<appState, now>>
           ELSE IF Len(d.queue) > 1
           THEN /\ del' = [del EXCEPT ![s] = [d EXCEPT !.queue = Tail(d.queue)]]
                /\ UNCHANGED <<appState, now>>
           ELSE DeleteContinues(s, [d EXCEPT !.queue = << >>])
    /\ UNCHANGED <<variant, compressionLib, rendered, loads, resetTimer, upl, bg, dl, objects, dataFile,
                   ops, disk, chk>>

\* DELETE of an object with the sha the caller holds
DeleteAccepted(objs, path, sha, r) ==
    r = "ok" /\ path \in DOMAIN objs /\ sha = <<objs[path]>>

\* deleteGitHubFile / deleteFileFromGitHub: the DELETE answered.  script.js
\* does not look at the answer; part_000 throws when it is not ok
deleteObject(s, r) ==
    /\ del[s].pc = "objDelete"
    /\ CanAnswer(r) /\ Spend(r)
    /\ LET path == del[s].queue[1]
           ok == DeleteAccepted(objects, path, del[s].sha, r)
           d == [del[s] EXCEPT !.failedAt = IF r = "ok" THEN @ ELSE @ \cup {path}]
       IN  /\ objects' = IF ok THEN Drop(objects, path) ELSE objects
           /\ IF ~ok /\ variant = "B"
              THEN /\ DeleteFails(s, d)
                   /\ UNCHANGED <<appState, now>>
              ELSE IF Len(d.queue) > 1
              THEN /\ del' = [del EXCEPT ![s] = [d EXCEPT !.pc = "objGet",
                                !.queue = Tail(d.queue), !.sha = << >>]]
                   /\ UNCHANGED <<appState, now>>
              ELSE DeleteContinues(s, [d EXCEPT !.queue = << >>, !.sha = << >>])
    /\ UNCHANGED <<variant, compressionLib, rendered, loads, resetTimer, upl, bg, dl, dataFile, ops,
                   disk, chk>>

\* the registry update of deleteFile: its GET of data.json answered
deleteRegistryGet(s, r) ==
    /\ del[s].pc = "regGet"
    /\ CanAnswer(r) /\ Spend(r)
    /\ del' = [del EXCEPT ![s] = [@ EXCEPT !.pc = "regPut", !.sha = shaOf(dataFile, r)]]
    /\ UNCHANGED <<variant, compressionLib, appState, rendered, loads, resetTimer, upl, bg, dl, objects,
                   dataFile, now, ops, disk, chk>>

\* the registry update of deleteFile: its PUT of data.json answered (its
\* result is not looked at), and the rest of deleteFile
deleteRegistryPut(s, r) ==
    /\ del[s].pc = "regPut"
    /\ CanAnswer(r) /\ Spend(r)
    /\ dataFile' = IF PutAccepted(dataFile, del[s].sha, r)
                   THEN [exists |-> TRUE, doc |-> del[s].content] ELSE dataFile
    /\ del' = [del EXCEPT ![s] = [@ EXCEPT !.pc = "idle", !.result = "success"]]
    /\ refreshList(s)
    /\ UNCHANGED <<variant, compressionLib, appState, resetTimer, upl, bg, dl, objects, now,
                   ops, disk, chk>>

(***************************************************************************)
(* Spec: one session and a store that may fail requests; SpecCalm: one     *)
(* session and a store that serves every request; SpecRace: two sessions   *)
(* and a store that serves every request.  The repository starts empty or  *)
(* holding one uploaded file.                                              *)
(***************************************************************************)
File(name, data) == [name |-> name, data |-> data]

\* the files on the users' disks: a one-chunk file and a three-chunk file
SmallDisk == {File(<<"a">>, << >>), File(<<"b">>, <<1, 0, 1>>)}

\* the remote store after a session, since closed, uploaded the files of
\* `stored` (none or one) with every request served: objects, data.json and
\* the clock as startUpload leaves them
StoredObjects(v, f) ==
    LET chunks == createChunks(gzip(f.data), CHUNK_SIZE)
        base == IF v = "A" THEN fileFolder(f.name) ELSE f.name
        req == metaRequest(v, base, f.name, Len(chunks))
        paths == {chunkPath(v, base, n) : n \in 1..Len(chunks)}
    IN  [p \in paths \cup {req.path} |->
            IF p = req.path THEN MetaObj(req.meta)
            ELSE ChunkObj(chunkContent(v,
                    chunks[CHOOSE n \in 1..Len(chunks) : chunkPath(v, base, n) = p]))]

StoredDataJson(v, f) ==
    pushEntry(DefaultDataJson,
              fileEntry(v, 1, f.name, Len(createChunks(gzip(f.data), CHUNK_SIZE))), 1)

InitWith(v, files, stored, nops, nfaults) ==
    /\ variant = v
    /\ compressionLib = [s \in Sessions |-> TRUE]
    /\ appState = [s \in Sessions |-> InitAppState]
    /\ rendered = [s \in Sessions |-> << >>]
    /\ resetTimer = [s \in Sessions |-> FALSE]
    /\ upl = [s \in Sessions |-> UplIdle]
    /\ bg = {}
    /\ dl = [s \in Sessions |-> DlIdle]
    /\ del = [s \in Sessions |-> DelIdle]
    /\ objects = IF stored = << >> THEN << >> ELSE StoredObjects(v, stored[1])
    /\ dataFile = IF stored = << >> THEN [exists |-> FALSE, doc |-> DefaultDataJson]
                  ELSE [exists |-> TRUE, doc |-> StoredDataJson(v, stored[1])]
    /\ now = IF stored = << >> THEN 1 ELSE 2
    /\ ops = nops
    /\ faults = nfaults
    /\ disk = files
    /\ chk = ChkIdle

\* what the repository may hold when the sessions open: nothing, or one file
Stored == {<< >>, <<File(<<"b">>, <<1, 0, 1>>)>>}

\* one session at work; the other one stays idle
Init ==
    \E v \in {"A", "B"}, stored \in Stored :
        /\ InitWith(v, SmallDisk, stored,
                    [s \in Sessions |-> IF s = 1 THEN MaxOps ELSE 0], MaxFaults)
        /\ loads = [s \in Sessions |-> IF s = 1 THEN 1 ELSE 0]

\* one session at work on a store that serves every request
InitCalm ==
    \E v \in {"A", "B"}, stored \in Stored :
        /\ InitWith(v, SmallDisk, stored,
                    [s \in Sessions |-> IF s = 1 THEN MaxCalmOps ELSE 0], 0)
        /\ loads = [s \in Sessions |-> IF s = 1 THEN 1 ELSE 0]

\* two sessions at work on a store that serves every request
InitRace ==
    \E v \in {"A", "B"}, stored \in Stored :
        /\ InitWith(v, SmallDisk, stored, [s \in Sessions |-> MaxRaceOps], 0)
        /\ loads = [s \in Sessions |-> 1]

\* one session at work on a store that serves every request, while data.json
\* may be replaced in the repository by a text that is not JSON
InitCorrupt ==
    \E v \in {"A", "B"}, stored \in Stored :
        /\ InitWith(v, SmallDisk, stored,
                    [s \in Sessions |-> IF s = 1 THEN MaxEnvOps ELSE 0], 0)
        /\ loads = [s \in Sessions |-> IF s = 1 THEN 1 ELSE 0]

\* data.json is edited in the repository and no longer parses
corruptRegistry ==
    /\ dataFile.exists /\ parses(dataFile.doc)
    /\ dataFile' = [exists |-> TRUE, doc |-> Garbled]
    /\ UNCHANGED <<variant, compressionLib, appState, rendered, loads, resetTimer, upl, bg, dl, del,
                   objects, now, ops, faults, disk, chk>>

Next ==
    \/ \E s \in Sessions :
        \/ \E f \in disk : handleFileSelect(s, f)
        \/ resetSelection(s)
        \/ loadUploadedFiles(s)
        \/ startUpload(s)
        \/ waitUpload(s)
        \/ waitDownload(s)
        \/ uploadCompressed(s)
        \/ \E k \in 1..Len(rendered[s]) : downloadFile(s, k) \/ deleteFile(s, k)
    \/ \E s \in Sessions, r \in Answers :
        \/ syncRegistry(s, r)
        \/ \E n \in DOMAIN upl[s].tasks : uploadChunk(s, n, r)
        \/ saveMetadata(s, r)
        \/ uploadRegistryGet(s, r)
        \/ uploadRegistryPut(s, r)
        \/ downloadMetadata(s, r)
        \/ \E n \in dl[s].pending : downloadChunk(s, n, r)
        \/ deleteObjectGet(s, r)
        \/ deleteObject(s, r)
        \/ deleteRegistryGet(s, r)
        \/ deleteRegistryPut(s, r)
    \/ \E t \in bg, r \in Answers : uploadChunkOrphan(t, r)

Spec == Init /\ [][Next]_vars

SpecCalm == InitCalm /\ [][Next]_vars

SpecRace == InitRace /\ [][Next]_vars

NextCorrupt == Next \/ corruptRegistry

\* one session at work on a store that may fail requests and may refuse the
\* token on a chunk PUT (the token was revoked or lacks the scope)
NextAuth ==
    \/ Next
    \/ \E s \in Sessions : \E n \in DOMAIN upl[s].tasks : uploadChunk(s, n, "auth")

SpecAuth == Init /\ [][NextAuth]_vars

\* the files on the disk of a user who uploads two files in a row
TwoNewFiles == {File(<<"a">>, << >>), File(<<"c">>, <<1>>)}

\* one session at work on a store that serves every request; its user has
\* two files the repository does not hold
InitAppend ==
    \E v \in {"A", "B"}, stored \in Stored :
        /\ InitWith(v, TwoNewFiles, stored,
                    [s \in Sessions |-> IF s = 1 THEN MaxCalmOps ELSE 0], 0)
        /\ loads = [s \in Sessions |-> IF s = 1 THEN 1 ELSE 0]

SpecAppend == InitAppend /\ [][Next]_vars

\* what the user may submit in the settings form: every field filled, the
\* branch left empty, or the token left empty
SettingsInputs == {AllSettings, AllSettings \ {"branch"}, AllSettings \ {"token"}}

\* one session at work on a store that serves every request; the user may
\* also change the settings
InitSettings ==
    \E v \in {"A", "B"}, stored \in Stored :
        /\ InitWith(v, SmallDisk, stored,
                    [s \in Sessions |-> IF s = 1 THEN MaxEnvOps ELSE 0], 0)
        /\ loads = [s \in Sessions |-> IF s = 1 THEN 1 ELSE 0]

NextSettings ==
    \/ Next
    \/ \E s \in Sessions :
        \/ \E fields \in SettingsInputs : saveSettings(s, fields)
        \/ clearSettings(s)

SpecSettings == InitSettings /\ [][NextSettings]_vars

\* one session at work on a store that serves every request, in a page whose
\* compression library has loaded, loads late or never loads
InitCodec ==
    \E v \in {"A", "B"}, stored \in Stored :
        /\ variant = v
        /\ compressionLib \in {[s \in Sessions |-> b] : b \in BOOLEAN}
        /\ appState = [s \in Sessions |-> InitAppState]
        /\ rendered = [s \in Sessions |-> << >>]
        /\ resetTimer = [s \in Sessions |-> FALSE]
        /\ upl = [s \in Sessions |-> UplIdle]
        /\ bg = {}
        /\ dl = [s \in Sessions |-> DlIdle]
        /\ del = [s \in Sessions |-> DelIdle]
        /\ objects = IF stored = << >> THEN << >> ELSE StoredObjects(v, stored[1])
        /\ dataFile = IF stored = << >> THEN [exists |-> FALSE, doc |-> DefaultDataJson]
                      ELSE [exists |-> TRUE, doc |-> StoredDataJson(v, stored[1])]
        /\ now = IF stored = << >> THEN 1 ELSE 2
        /\ ops = [s \in Sessions |-> IF s = 1 THEN MaxEnvOps ELSE 0]
        /\ faults = 0
        /\ disk = SmallDisk
        /\ chk = ChkIdle
        /\ loads = [s \in Sessions |-> IF s = 1 THEN 1 ELSE 0]

NextCodec == Next \/ \E s \in Sessions : libLoads(s)

SpecCodec == InitCodec /\ [][NextCodec]_vars

SpecCorrupt == InitCorrupt /\ [][NextCorrupt]_vars

(***************************************************************************)
(* SpecChunker: createChunks then combineChunks on every blob and size.    *)
(***************************************************************************)
ChunkerInit ==
    /\ variant = "A"
    /\ compressionLib = [s \in Sessions |-> TRUE]
    /\ appState = [s \in Sessions |-> InitAppState]
    /\ rendered = [s \in Sessions |-> << >>]
    /\ loads = [s \in Sessions |-> 0]
    /\ resetTimer = [s \in Sessions |-> FALSE]
    /\ upl = [s \in Sessions |-> UplIdle]
    /\ bg = {}
    /\ dl = [s \in Sessions |-> DlIdle]
    /\ del = [s \in Sessions |-> DelIdle]
    /\ objects = << >>
    /\ dataFile = [exists |-> FALSE, doc |-> DefaultDataJson]
    /\ now = 1
    /\ ops = [s \in Sessions |-> 0]
    /\ faults = 0
    /\ disk = {}
    /\ chk \in {[phase |-> "in", blob |-> b, size |-> sz, chunks |-> << >>, merged |-> << >>] :
                b \in SeqsUpTo(Byte, MaxBlobLen), sz \in 1..MaxChunkSize}

ChunkerSplit ==
    /\ chk.phase = "in"
    /\ chk' = [chk EXCEPT !.phase = "split", !.chunks = createChunks(chk.blob, chk.size)]
    /\ UNCHANGED <<variant, compressionLib, appState, rendered, loads, resetTimer, upl, bg, dl, del,
                   objects, dataFile, now, ops, faults, disk>>

ChunkerMerge ==
    /\ chk.phase = "split"
    /\ chk' = [chk EXCEPT !.phase = "merged", !.merged = combineChunks(chk.chunks)]
    /\ UNCHANGED <<variant, compressionLib, appState, rendered, loads, resetTimer, upl, bg, dl, del,
                   objects, dataFile, now, ops, faults, disk>>

ChunkerNext == ChunkerSplit \/ ChunkerMerge

SpecChunker == ChunkerInit /\ [][ChunkerNext]_vars

(***************************************************************************)
(* SpecPaths: the paths an upload stores under, and the paths a download   *)
(* and a delete of the registered entry derive, for every name and index.  *)
(***************************************************************************)
NameChar == {"a", "/", "?", "<"}

Names == SeqsUpTo(NameChar, MaxNameLen) \ {<< >>}

PathsInit ==
    /\ variant \in {"A", "B"}
    /\ compressionLib = [s \in Sessions |-> TRUE]
    /\ appState = [s \in Sessions |-> InitAppState]
    /\ rendered = [s \in Sessions |-> << >>]
    /\ loads = [s \in Sessions |-> 0]
    /\ resetTimer = [s \in Sessions |-> FALSE]
    /\ upl = [s \in Sessions |-> UplIdle]
    /\ bg = {}
    /\ dl = [s \in Sessions |-> DlIdle]
    /\ del = [s \in Sessions |-> DelIdle]
    /\ objects = << >>
    /\ dataFile = [exists |-> FALSE, doc |-> DefaultDataJson]
    /\ now = 1
    /\ ops = [s \in Sessions |-> 0]
    /\ faults = 0
    /\ disk = {}
    /\ chk \in {[phase |-> "name", name |-> nm, n |-> n, entry |-> << >>,
                 stored |-> << >>, meta |-> << >>, fetched |-> << >>, deleted |-> << >>] :
                nm \in Names, n \in 1..MaxIndex}

\* startUpload .. updateRegistry: the path chunk n and the metadata are stored
\* under, and the registry entry of the file
PathsStore ==
    /\ chk.phase = "name"
    /\ LET base == IF variant = "A" THEN fileFolder(chk.name) ELSE chk.name
       IN  chk' = [chk EXCEPT !.phase = "stored",
                              !.entry = <<fileEntry(variant, now, chk.name, chk.n)>>,
                              !.stored = chunkPath(variant, base, chk.n),
                              !.meta = IF variant = "A" THEN metaPathA(base) ELSE metaPathB(base)]
    /\ UNCHANGED <<variant, compressionLib, appState, rendered, loads, resetTimer, upl, bg, dl, del,
                   objects, dataFile, now, ops, faults, disk>>

\* downloadFile and deleteFile of the registered entry: the paths of chunk n
PathsFetch ==
    /\ chk.phase = "stored"
    /\ LET e == chk.entry[1]
           folder == IF variant = "A" THEN e.folder ELSE << >>
       IN  chk' = [chk EXCEPT !.phase = "fetched",
                              !.fetched = downloadChunkPath(variant, e.name, folder, chk.n),
                              !.deleted = deleteChunkPath(variant, e.name, folder, chk.n)]
    /\ UNCHANGED <<variant, compressionLib, appState, rendered, loads, resetTimer, upl, bg, dl, del,
                   objects, dataFile, now, ops, faults, disk>>

PathsNext == PathsStore \/ PathsFetch

SpecPaths == PathsInit /\ [][PathsNext]_vars

(***************************************************************************)
(* SpecCategory: detectFileCategory on every file name over a small        *)
(* alphabet that spells the extensions iso (listed by game, archive and    *)
(* iso), gz (archive) and so on, in either case, with and without dots.    *)
(***************************************************************************)
FileNameChar == {".", "i", "s", "o", "I", "g", "z"}

FileNames == SeqsUpTo(FileNameChar, MaxFileNameLen) \ {<< >>}

CategoryInit ==
    /\ variant \in {"A", "B"}
    /\ compressionLib = [s \in Sessions |-> TRUE]
    /\ appState = [s \in Sessions |-> InitAppState]
    /\ rendered = [s \in Sessions |-> << >>]
    /\ loads = [s \in Sessions |-> 0]
    /\ resetTimer = [s \in Sessions |-> FALSE]
    /\ upl = [s \in Sessions |-> UplIdle]
    /\ bg = {}
    /\ dl = [s \in Sessions |-> DlIdle]
    /\ del = [s \in Sessions |-> DelIdle]
    /\ objects = << >>
    /\ dataFile = [exists |-> FALSE, doc |-> DefaultDataJson]
    /\ now = 1
    /\ ops = [s \in Sessions |-> 0]
    /\ faults = 0
    /\ disk = {}
    /\ chk \in {[phase |-> "file", name |-> nm, category |-> "none"] : nm \in FileNames}

\* saveMetadata / updateRegistry / updateDataJson: the category of the file
CategoryDetect ==
    /\ chk.phase = "file"
    /\ chk' = [chk EXCEPT !.phase = "detected", !.category = detectFileCategory(chk.name)]
    /\ UNCHANGED <<variant, compressionLib, appState, rendered, loads, resetTimer, upl, bg, dl, del,
                   objects, dataFile, now, ops, faults, disk>>

CategoryNext == CategoryDetect

SpecCategory == CategoryInit /\ [][CategoryNext]_vars

(***************************************************************************)
(* Claims about the registry (data.json).                                  *)
(***************************************************************************)
\* the entries of the remote registry with the given id
RemoteEntries(id) ==
    {k \in 1..Len(dataFile.doc.files) : dataFile.doc.files[k].id = id}

\* C1: once two sessions have each finished an upload and run their registry
\* append, whatever the interleaving of their GETs and PUTs of data.json,
\* the remote registry holds the FileEntry of both uploads (no delete ran and
\* the store served every request).
C1_NoLostUpdate ==
    (\A s \in Sessions : upl[s].result = "success" /\ del[s] = DelIdle)
        => \A s \in Sessions : RemoteEntries(upl[s].entryId) # {}

\* the files of the document a read of data.json returned with the token sha
ReadFiles(sha) == IF sha = << >> THEN << >> ELSE sha[1].files

\* C2: the content a registry write sends is computed from the document
\* fetched by the read that obtained its token: the files written are the
\* files just read with the one append (upload) or removal (delete), never
\* the session's in-memory copy.
C2_WriteFromFreshRead ==
    \A s \in Sessions :
        /\ upl[s].pc = "regPut" =>
              LET files == upl[s].content.files
              IN  files = Append(ReadFiles(upl[s].sha), files[Len(files)])
        /\ del[s].pc = "regPut" =>
              del[s].content.files = filterName(ReadFiles(del[s].sha), del[s].name)

\* the token is not the one of the current data.json
Stale(sha) == dataFile.exists /\ sha # << >> /\ sha # <<dataFile.doc>>

\* C3: a write of data.json that carries a stale token is rejected by the
\* store and the rejection reaches the caller of the registry write: the
\* update does not complete as if it had succeeded, and the remote document
\* is not overwritten by it.
C3_StaleWriteSurfaces ==
    [][\A s \in Sessions :
        /\ (upl[s].pc = "regPut" /\ upl'[s].pc # "regPut" /\ Stale(upl[s].sha))
              => (upl'[s].result # "success" /\ dataFile' = dataFile)
        /\ (del[s].pc = "regPut" /\ del'[s].pc # "regPut" /\ Stale(del[s].sha))
              => (del'[s].result # "success" /\ dataFile' = dataFile)]_vars

(***************************************************************************)
(* Claims about startUpload.                                               *)
(***************************************************************************)
\* a chunk of the upload of session s has failed all its attempts
Exhausted(s) == \E n \in DOMAIN upl[s].tasks : upl[s].tasks[n] >= RETRY_ATTEMPTS

\* C4: when a chunk's PUT has failed on all 3 attempts the upload has ended
\* in failure (not running, not reported as success) without having built a
\* FileEntry, and the step that ends it changes neither the remote data.json
\* nor the in-memory registry.
C4_ChunkExhaustionFailsUpload ==
    /\ [](\A s \in Sessions :
            Exhausted(s) => /\ upl[s].pc = "idle"
                            /\ upl[s].result = "failed"
                            /\ upl[s].entryId = 0
                            /\ ~appState[s].isUploading)
    /\ [][\A s \in Sessions :
            (Exhausted(s)' /\ ~Exhausted(s))
                => /\ dataFile' = dataFile
                   /\ appState'[s].dataJson = appState[s].dataJson]_vars

\* an upload ended by a chunk whose last allowed attempt failed
C4_Witness ==
    \E s \in Sessions :
        /\ upl[s].result = "failed"
        /\ \E n \in DOMAIN upl[s].tasks : upl[s].tasks[n] = RETRY_ATTEMPTS
        /\ Len(upl[s].chunks) > 0

\* C5: after startUpload reported success for a file, a later download of
\* that file, with the store serving every request of the download and no
\* delete in between, ends in success and saves exactly the uploaded bytes.
C5_RoundTrip ==
    \A s, u \in Sessions :
        ( /\ dl[s].pc = "idle" /\ dl[s].result # "none" /\ dl[s].errs = 0
          /\ upl[u].result = "success" /\ dl[s].entryId = upl[u].entryId
          /\ upl[u].entryId \in dl[s].reported
          /\ \A x \in Sessions : del[x] = DelIdle )
        => (dl[s].result = "success" /\ dl[s].out = <<upl[u].file[1].data>>)

\* C6: at the step where startUpload reports success the remote registry
\* holds exactly one FileEntry of this upload, for the uploaded file, whose
\* chunkCount is the number of chunks the upload wrote, and those chunks sit
\* at the paths derived from the entry for the indices 1..chunkCount.
C6_SuccessRegistersEntry ==
    [][\A s \in Sessions :
        (upl[s].result # "success" /\ upl'[s].result = "success")
        => LET u == upl'[s]
               files == dataFile'.doc.files
               mine == {k \in 1..Len(files) : files[k].id = u.entryId}
           IN  /\ dataFile'.exists
               /\ Cardinality(mine) = 1
               /\ \A k \in mine :
                    /\ files[k].name = u.file[1].name
                    /\ files[k].chunkCount = Len(u.chunks)
                    /\ \A n \in 1..files[k].chunkCount :
                         LET path == entryChunkPath(variant, files[k], n)
                         IN  /\ path \in DOMAIN objects'
                             /\ objects'[path].text = chunkContent(variant, u.chunks[n])]_vars

(***************************************************************************)
(* Claims about downloadFile.                                              *)
(***************************************************************************)
\* C9: the chunks downloadFile hands to combineChunks are in ascending index
\* order 1..chunkCount, each the bytes fetched for its index, whatever the
\* order in which the fetches of a batch complete.
C9_MergeInIndexOrder ==
    \A s \in Sessions :
        /\ \A k \in 1..Len(dl[s].chunks) :
              k \in DOMAIN dl[s].got /\ dl[s].chunks[k] = dl[s].got[k]
        /\ dl[s].result = "success" => Len(dl[s].chunks) = dl[s].chunkCount

\* a download of script.js that merged and saved several chunks of which a
\* later one arrived before an earlier one
C9_Witness ==
    \E s \in Sessions :
        /\ variant = "A"
        /\ dl[s].result = "success"
        /\ dl[s].out # << >>
        /\ \E j \in 1..(Len(dl[s].order) - 1) : dl[s].order[j] > dl[s].order[j + 1]
        /\ \E j, k \in 1..Len(dl[s].chunks) : dl[s].chunks[j] # dl[s].chunks[k]

\* C10: a download that succeeds has fetched exactly chunkCount chunks, one
\* per index 1..chunkCount, each from the path derived for its index; a
\* download one of whose chunks was not found has ended in failure, and a
\* failed download has saved no content, merged or partial.
C10_AllChunksOrFailure ==
    /\ [](\A s \in Sessions :
            /\ dl[s].result = "success" =>
                  /\ DOMAIN dl[s].got = 1..dl[s].chunkCount
                  /\ Len(dl[s].order) = dl[s].chunkCount
                  /\ {dl[s].order[j] : j \in 1..Len(dl[s].order)} = 1..dl[s].chunkCount
            /\ dl[s].missing > 0 => dl[s].pc = "idle" /\ dl[s].result = "failed"
            /\ dl[s].result = "failed" => dl[s].out = << >>)
    /\ [][\A s \in Sessions :
            \A n \in DOMAIN dl'[s].got :
                n \notin DOMAIN dl[s].got =>
                    LET path == IF variant = "A" THEN chunkPathA(dl'[s].folder, n)
                                ELSE chunkPathB(dl'[s].name, n)
                    IN  /\ path \in DOMAIN objects
                        /\ dl'[s].got[n] = atob(objects[path].text)]_vars

\* a download that fetched a first batch and then ended in failure on a chunk
\* whose path the store, serving the request, did not have
C10_Witness ==
    \E s \in Sessions :
        /\ dl[s].result = "failed"
        /\ dl[s].missing > 0
        /\ dl[s].errs = 0
        /\ dl[s].got # << >>
        /\ dl[s].out = << >>

(***************************************************************************)
(* Claims about the chunker.                                               *)
(***************************************************************************)
\* C7: for every blob b and chunk size s >= 1, combineChunks of the chunks of
\* createChunks(b), in order, gives back exactly b.
C7_ChunkRoundTrip == chk.phase = "merged" => chk.merged = chk.blob

\* a blob that split into several chunks, the last one short, was merged
C7_Witness ==
    /\ chk.phase = "merged"
    /\ Len(chk.chunks) >= 2
    /\ Len(chk.chunks[Len(chk.chunks)]) < chk.size

CeilDiv(n, s) == (n + s - 1) \div s

\* C8: createChunks on a blob of length n with chunk size s returns ceil(n/s)
\* chunks (0 when n = 0); every chunk but the last has exactly s bytes and the
\* last has between 1 and s bytes.
C8_ChunkCountAndSizes ==
    chk.phase \in {"split", "merged"} =>
        /\ Len(chk.chunks) = CeilDiv(Len(chk.blob), chk.size)
        /\ (Len(chk.blob) = 0 => chk.chunks = << >>)
        /\ \A k \in 1..Len(chk.chunks) :
              IF k < Len(chk.chunks)
              THEN Len(chk.chunks[k]) = chk.size
              ELSE Len(chk.chunks[k]) >= 1 /\ Len(chk.chunks[k]) <= chk.size

\* a split with full chunks followed by a shorter last chunk
C8_Witness ==
    /\ chk.phase = "split"
    /\ Len(chk.chunks) >= 2
    /\ Len(chk.chunks[Len(chk.chunks)]) < chk.size
    /\ Len(chk.chunks[1]) = chk.size


(***************************************************************************)
(* Claims about deleteFile.                                                *)
(***************************************************************************)
\* the step completes the deleteFile call of session s
DeleteCompletes(s) == del'[s] # del[s] /\ del'[s].result # "none"

\* C11: when deleteFile(name) completes for a file that was present in the
\* registry, the store having answered every request, the repository holds no
\* chunk object 1..chunkCount of the file, no metadata object of it, and the
\* remote registry holds no entry with that name.
C11_DeleteRemovesFile ==
    [][\A s \in Sessions :
          DeleteCompletes(s) /\ del'[s].whole =>
              LET e == del'[s].entry[1]
              IN  /\ \A n \in 1..e.chunkCount :
                        entryChunkPath(variant, e, n) \notin DOMAIN objects'
                  /\ entryMetaPath(variant, e) \notin DOMAIN objects'
                  /\ findEntry(dataFile'.doc.files, e.name) = << >>]_vars

\* C12: a delete changes the remote registry only by removing the entries
\* whose name matches: the other entries stay, in the same order, and no
\* entry is added.
C12_DeleteOnlyRemoves ==
    [][\A s \in Sessions :
          del[s].pc = "regPut" /\ del'[s].pc # "regPut" /\ dataFile' # dataFile =>
              dataFile'.doc.files = filterName(dataFile.doc.files, del[s].name)]_vars

\* C13: deleteFile on a name the registry holds no entry for is a no-op: it
\* reports no error and its steps change no object and not the registry.
C13_DeleteIdempotent ==
    [][\A s \in Sessions :
          del'[s] # del[s] /\ del'[s].absent =>
              /\ del'[s].result # "failed"
              /\ objects' = objects
              /\ dataFile' = dataFile]_vars

\* C15: delete is best-effort: when the delete of one chunk fails, the delete
\* of every remaining chunk is still attempted, and the caller is told that
\* the cleanup is incomplete.
C15_DeleteBestEffort ==
    \A s \in Sessions :
        (/\ del[s].result # "none"
         /\ del[s].entry # << >>
         /\ \E n \in 1..del[s].entry[1].chunkCount :
                entryChunkPath(variant, del[s].entry[1], n) \in del[s].failedAt)
        => /\ \A n \in 1..del[s].entry[1].chunkCount :
                 entryChunkPath(variant, del[s].entry[1], n) \in del[s].tried
           /\ del[s].result = "failed"

\* the step is the answer to the registry PUT of an operation that session
\* s began after a read of data.json that did not parse
PutAfterParseFailure(s) ==
    \/ upl[s].pc = "regPut" /\ upl'[s].pc # "regPut" /\ upl[s].afterParseFailure
    \/ del[s].pc = "regPut" /\ del'[s].pc # "regPut" /\ del[s].afterParseFailure

\* C14: when data.json exists but does not parse, the failure is fatal for
\* the operation: a session whose read of data.json failed to parse never
\* afterwards overwrites the remote data.json with a registry built from the
\* empty default or from its stale copy.
C14_CorruptRegistryNotOverwritten ==
    [][\A s \in Sessions :
          (/\ PutAfterParseFailure(s)
           /\ dataFile.exists /\ ~parses(dataFile.doc))
          => dataFile' = dataFile]_vars

\* the positions of the entry with the given id in a files list
Positions(files, id) == {k \in 1..Len(files) : files[k].id = id}

\* the entries present in both lists stand in the same order in both
SameRelativeOrder(old, new) ==
    \A i, j \in 1..Len(old) :
        i < j => \A p \in Positions(new, old[i].id), q \in Positions(new, old[j].id) : p < q

\* C18: appends preserve the order: when a session, which deletes nothing,
\* has uploaded E1 and then E2, both reported successful, the remote files
\* list ends with E1, E2, and the entries that were present before keep
\* their relative order.
C18_AppendKeepsOrder ==
    [][\A s \in Sessions :
          (/\ upl[s].result # "success" /\ upl'[s].result = "success"
           /\ upl'[s].prev # 0
           /\ del'[s] = DelIdle)
          => LET files == dataFile'.doc.files
                 n == Len(files)
             IN  /\ n >= 2
                 /\ files[n - 1].id = upl'[s].prev
                 /\ files[n].id = upl'[s].entryId
                 /\ SameRelativeOrder(dataFile.doc.files, files)]_vars

(***************************************************************************)
(* Claims about the settings.                                              *)
(***************************************************************************)
\* the step leaves an operation of session s with a request it has just sent:
\* an upload (chunk, metadata or registry request), a download, a delete or
\* a read of the registry
IssuesRequest(s) ==
    \/ upl'[s] # upl[s] /\ upl'[s].pc \in {"transfer", "meta", "regGet", "regPut"}
    \/ dl'[s] # dl[s] /\ dl'[s].pc # "idle"
    \/ del'[s] # del[s] /\ del'[s].pc # "idle"
    \/ loads'[s] > loads[s]

\* C16: no upload, download, delete, registry read or registry write sends a
\* remote request unless the four settings token, owner, repo and branch are
\* all non-empty.
C16_RequestsNeedAllSettings ==
    [][\A s \in Sessions : IssuesRequest(s) => appState[s].settings = AllSettings]_vars

(***************************************************************************)
(* Claims about the compression library.                                   *)
(***************************************************************************)
\* the wait of waitForCompressionLib of this call ran out: its last tick
\* found no library and attempts above maxAttempts
WaitRanOut(call) == call.attempts = maxAttempts + 2

\* C19: when no compression backend becomes available within the bounded
\* wait of waitForCompressionLib (part_000), startUpload and downloadFile
\* abort with an error before they send any remote request.
C19_NoCodecAbortsBeforeRequests ==
    \A s \in Sessions :
        /\ WaitRanOut(upl[s]) =>
              /\ upl[s].pc = "idle" /\ upl[s].result = "failed"
              /\ upl[s].chunks = << >> /\ upl[s].tasks = << >>
              /\ upl[s].req = NoReq /\ upl[s].sha = << >>
        /\ WaitRanOut(dl[s]) =>
              /\ dl[s].pc = "idle" /\ dl[s].result = "failed"
              /\ dl[s].chunkCount = 0 /\ dl[s].pending = {}
              /\ dl[s].got = << >> /\ dl[s].missing = 0

\* with a file in the repository, an upload and later a download have both
\* waited in vain for the library
C19_Witness ==
    \E s \in Sessions :
        /\ variant = "B"
        /\ ~compressionLib[s]
        /\ WaitRanOut(upl[s]) /\ upl[s].result = "failed"
        /\ WaitRanOut(dl[s]) /\ dl[s].result = "failed"
        /\ objects # << >>

NameSegment(path, name) == SubSeq(path, 3, 2 + Len(name))

\* C20: the file name is sanitized before it is used as a path segment: no
\* chunk path, metadata path or folder path holds a path-breaking character
\* that came from the file name.
C20_NameSanitizedInPaths ==
    chk.phase \in {"stored", "fetched"} =>
        /\ \A k \in 1..Len(chk.name) :
              /\ NameSegment(chk.stored, chk.name)[k] \notin PathBreaking
              /\ NameSegment(chk.meta, chk.name)[k] \notin PathBreaking
        /\ variant = "A" =>
              \A k \in 1..Len(chk.name) :
                  NameSegment(chk.entry[1].folder, chk.name)[k] \notin PathBreaking

\* part_000 stored a chunk of a file named "?" under a path holding the "?"
C20_Counterexample ==
    ~(/\ variant = "B"
      /\ chk.phase = "stored"
      /\ chk.name = <<"?">>
      /\ chk.stored = <<"assets", "/", "?", ".part", "1", ".gz">>)

(***************************************************************************)
(* Claims about detectFileCategory.                                        *)
(***************************************************************************)
\* the positions of the dots of a name
Dots(name) == {k \in 1..Len(name) : name[k] = "."}

\* the text after the last dot of a name that has one
AfterLastDot(name) ==
    LET last == CHOOSE d \in Dots(name) : \A e \in Dots(name) : e <= d
    IN  SubSeq(name, last + 1, Len(name))

\* the categories, by position in the declared order, that list ext
Listing(ext) ==
    {k \in 1..Len(FILE_CATEGORIES) :
        \E j \in 1..Len(FILE_CATEGORIES[k].extensions) :
            FILE_CATEGORIES[k].extensions[j] = ext}

\* the first category in the declared order that lists ext, "other" if none
FirstListing(ext) ==
    IF Listing(ext) = {} THEN "other"
    ELSE FILE_CATEGORIES[CHOOSE k \in Listing(ext) : \A j \in Listing(ext) : k <= j].category

\* C21: for a file name with a dot, detectFileCategory returns the first
\* category, in the declared order of FILE_CATEGORIES, whose extension list
\* holds the lower-cased text after the last dot of the name, and "other"
\* when no category lists it (names without a dot are the subject of C22).
C21_FirstListedCategory ==
    chk.phase = "detected" /\ Dots(chk.name) # {} =>
        chk.category = FirstListing(toLowerCase(AfterLastDot(chk.name)))

\* a name whose extension is written with a capital and is listed by several
\* categories got the first of them
C21_Witness ==
    /\ chk.phase = "detected"
    /\ Dots(chk.name) # {}
    /\ toLowerCase(AfterLastDot(chk.name)) # AfterLastDot(chk.name)
    /\ Cardinality(Listing(toLowerCase(AfterLastDot(chk.name)))) >= 2
    /\ chk.category = "game"

\* C22: for every file name without a dot detectFileCategory returns "other".
C22_NoExtensionIsOther ==
    chk.phase = "detected" /\ Dots(chk.name) = {} => chk.category = "other"

(***************************************************************************)
(* Claims about the retries of a chunk PUT.                                *)
(***************************************************************************)
\* the step is the answer to an attempt of chunk n of the upload of session s
\* that stored the chunk
AttemptStores(s, n) ==
    /\ chunkPath(variant, upl[s].base, n) \notin DOMAIN objects
    /\ chunkPath(variant, upl[s].base, n) \in DOMAIN objects'

\* C23: each chunk PUT is attempted at most 3 times: a chunk is never on
\* an attempt beyond its third; an attempt that succeeds ends the attempts
\* of its chunk; an attempt that fails is followed by another one exactly
\* when fewer than 3 attempts were made, and the failure of the third one
\* rejects, which ends the upload in failure.
C23_AtMostThreeAttempts ==
    /\ [](/\ \A s \in Sessions : \A n \in DOMAIN upl[s].tasks :
                /\ upl[s].tasks[n] <= 3
                /\ upl[s].pc = "transfer" => upl[s].tasks[n] < 3
          /\ \A t \in bg : t.attempt < 3)
    /\ [][\A s \in Sessions :
            upl[s].pc = "transfer" /\ upl'[s] # upl[s] =>
                \E n \in DOMAIN upl[s].tasks :
                    \/ /\ AttemptStores(s, n)
                       /\ n \notin DOMAIN upl'[s].tasks
                    \/ /\ objects' = objects
                       /\ upl[s].tasks[n] + 1 < 3
                       /\ upl'[s].pc = "transfer"
                       /\ upl'[s].tasks = [upl[s].tasks EXCEPT ![n] = @ + 1]
                    \/ /\ objects' = objects
                       /\ upl[s].tasks[n] + 1 = 3
                       /\ upl'[s].pc = "idle"
                       /\ upl'[s].result = "failed"]_vars

\* an upload whose chunk failed twice and is on its third attempt
C23_Witness ==
    \E s \in Sessions :
        /\ upl[s].pc = "transfer"
        /\ \E n \in DOMAIN upl[s].tasks : upl[s].tasks[n] = 2

\* C24: the delays one chunk waits between its successive attempts are
\* strictly increasing: the wait before attempt 3 is longer than the wait
\* before attempt 2.
C24_BackoffIncreases ==
    \A s \in Sessions : \A n \in DOMAIN upl[s].waits :
        \A j \in 1..(Len(upl[s].waits[n]) - 1) :
            upl[s].waits[n][j] < upl[s].waits[n][j + 1]

(***************************************************************************)
(* Claims about the retries of a chunk fetch.                              *)
(***************************************************************************)
\* the step is the answer to a chunk fetch of the download of session s that
\* the store failed
FetchFailsTransiently(s) == dl[s].pc = "fetch" /\ dl'[s].errs = dl[s].errs + 1

\* C25: a chunk fetch that fails transiently is retried up to 3 attempts
\* before the download is aborted: a failed fetch ends the download only
\* when it is the third failed attempt for its chunk, so only when the store
\* has failed at least 3 requests of this download.
C25_ChunkFetchRetried ==
    [][\A s \in Sessions :
          FetchFailsTransiently(s) /\ dl'[s].result = "failed" => dl'[s].errs >= 3]_vars

(***************************************************************************)
(* Claims about the failure of a registry write.                           *)
(***************************************************************************)
\* C26: when a write of data.json is rejected for a stale token the registry
\* update starts its cycle again with a new read of data.json, or, its
\* bounded repeats used up, gives up with an error: it does not end as done.
C26_StaleWriteRestartsCycle ==
    [][\A s \in Sessions :
        /\ (upl[s].pc = "regPut" /\ upl'[s].pc # "regPut" /\ Stale(upl[s].sha))
              => (upl'[s].pc = "regGet" \/ upl'[s].result = "failed")
        /\ (del[s].pc = "regPut" /\ del'[s].pc # "regPut" /\ Stale(del[s].sha))
              => (del'[s].pc = "regGet" \/ del'[s].result = "failed")]_vars

\* the step is the answer to the PUT of data.json of the upload of session s,
\* and the store did not take the write (it rejected it or failed)
RegistryWriteFails(s) ==
    upl[s].pc = "regPut" /\ upl'[s].pc # "regPut" /\ dataFile' = dataFile

\* C27: a failure of the registry write of an upload propagates to
\* startUpload: the upload ends in failure and does not report success.
C27_RegistryFailureFailsUpload ==
    [][\A s \in Sessions :
          RegistryWriteFails(s) => upl'[s].result = "failed"]_vars

(***************************************************************************)
(* Claims about the batches of a transfer.                                 *)
(***************************************************************************)
\* the chunks of the upload (download) of session s whose request is in flight
UploadInFlight(s) == IF upl[s].pc = "transfer" THEN DOMAIN upl[s].tasks ELSE {}
DownloadInFlight(s) == IF dl[s].pc = "fetch" THEN dl[s].pending ELSE {}

\* C28: of the chunk requests of one upload, and of one download, at most
\* PARALLEL_BATCH are in flight at any time, all of the same batch; and the
\* requests of a batch are issued only in a step that leaves no request of
\* the batch before it in flight, as the batch that follows it in index order.
C28_BatchesBounded ==
    /\ [](\A s \in Sessions :
            /\ Cardinality(UploadInFlight(s)) <= PARALLEL_BATCH
            /\ Cardinality(DownloadInFlight(s)) <= PARALLEL_BATCH
            /\ \A n \in UploadInFlight(s) :
                  n > upl[s].i /\ n <= upl[s].i + PARALLEL_BATCH
            /\ \A n \in DownloadInFlight(s) :
                  n > dl[s].i /\ n <= dl[s].i + PARALLEL_BATCH)
    /\ [][\A s \in Sessions :
            /\ UploadInFlight(s)' \ UploadInFlight(s) # {} =>
                  /\ UploadInFlight(s)' \cap UploadInFlight(s) = {}
                  /\ Cardinality(UploadInFlight(s)) <= 1
                  /\ \A m \in UploadInFlight(s) : AttemptStores(s, m)
                  /\ \A m \in UploadInFlight(s), n \in UploadInFlight(s)' : m < n
            /\ DownloadInFlight(s)' \ DownloadInFlight(s) # {} =>
                  /\ DownloadInFlight(s)' \cap DownloadInFlight(s) = {}
                  /\ Cardinality(DownloadInFlight(s)) <= 1
                  /\ \A m \in DownloadInFlight(s) : m \in DOMAIN dl'[s].got
                  /\ \A m \in DownloadInFlight(s), n \in DownloadInFlight(s)' : m < n]_vars

\* an upload of script.js whose second batch is in flight, the first batch
\* having been a full one
C28_Witness ==
    \E s \in Sessions :
        /\ variant = "A"
        /\ upl[s].i = PARALLEL_BATCH
        /\ UploadInFlight(s) # {}
        /\ \A n \in 1..upl[s].i : chunkPath(variant, upl[s].base, n) \in DOMAIN objects

\* C29: progress is reported after each chunk that completes, not once per
\* batch: the step in which a chunk of an upload is stored, or a chunk of a
\* download is fetched, reports a progress of one chunk more than the report
\* before it, so no two chunks complete between two reports.
C29_ProgressPerChunk ==
    [][\A s \in Sessions :
        /\ (upl[s].pc = "transfer" /\ \E n \in DOMAIN upl[s].tasks : AttemptStores(s, n))
              => upl'[s].progress = upl[s].progress + 1
        /\ (dl[s].pc = "fetch" /\ DOMAIN dl'[s].got # DOMAIN dl[s].got)
              => dl'[s].progress = dl[s].progress + 1]_vars

(***************************************************************************)
(* Claims about the phases of startUpload.                                 *)
(***************************************************************************)
\* the phases an upload may enter from each phase: waiting for the library
\* (part_000), compressing and chunking, transferring the chunks, writing
\* the metadata, then the registry (its read and its write), and the end
PhaseAfter(pc) ==
    CASE pc = "idle" -> {"wait", "compress"}
      [] pc = "wait" -> {"wait", "compress", "idle"}
      [] pc = "compress" -> {"transfer", "idle"}
      [] pc = "transfer" -> {"transfer", "meta", "idle"}
      [] pc = "meta" -> {"regGet", "idle"}
      [] pc = "regGet" -> {"regPut"}
      [] pc = "regPut" -> {"idle"}

\* every chunk of the upload of session s sits in the store as it was sent
AllChunksStored(s) ==
    \A n \in 1..Len(upl[s].chunks) :
        LET path == chunkPath(variant, upl[s].base, n)
        IN  /\ path \in DOMAIN objects
            /\ objects[path].text = chunkContent(variant, upl[s].chunks[n])

\* C30: an upload passes through its phases only in the order compress and
\* chunk, transfer, metadata and registry, done.  No chunk PUT is in flight
\* before compression and chunking finished, the chunks in flight are those
\* of the compressed file, the metadata write is issued only by the step in
\* which the last chunk PUT in flight succeeds, all chunks then counted as
\* done (so, as long as no delete has run, every chunk sits in the store
\* while the metadata and registry writes are in flight), and success is
\* reported only after the registry write.
C30_UploadPhasesInOrder ==
    /\ [](\A s \in Sessions :
            /\ upl[s].pc \in {"wait", "compress"} =>
                  upl[s].tasks = << >> /\ upl[s].chunks = << >>
            /\ upl[s].pc = "transfer" =>
                  /\ upl[s].chunks = createChunks(gzip(upl[s].file[1].data), CHUNK_SIZE)
                  /\ DOMAIN upl[s].tasks \subseteq 1..Len(upl[s].chunks)
            /\ upl[s].pc \in {"meta", "regGet", "regPut"} =>
                  /\ upl[s].tasks = << >>
                  /\ upl[s].chunks # << >>
                  /\ upl[s].progress = Len(upl[s].chunks)
                  /\ (\A x \in Sessions : del[x] = DelIdle) => AllChunksStored(s))
    /\ [][\A s \in Sessions :
            /\ upl'[s].pc # upl[s].pc => upl'[s].pc \in PhaseAfter(upl[s].pc)
            /\ (upl[s].pc = "transfer" /\ upl'[s].pc = "meta") =>
                  /\ Cardinality(DOMAIN upl[s].tasks) = 1
                  /\ \A n \in DOMAIN upl[s].tasks : AttemptStores(s, n)
            /\ (upl[s].result # "success" /\ upl'[s].result = "success")
                  => upl[s].pc = "regPut"]_vars

\* the metadata write of an upload that took several batches is in flight
C30_Witness ==
    \E s \in Sessions :
        /\ upl[s].pc = "meta"
        /\ Len(upl[s].chunks) > BatchSize(variant)
        /\ AllChunksStored(s)

(***************************************************************************)
(* Claims about the lookup that precedes the chunk fetches of a download.  *)
(***************************************************************************)
\* C31: a download issues its first chunk fetch only once it has the chunk
\* count and the naming of the chunks, from the FileEntry of the clicked item
\* (script.js) or from the metadata object of the file (part_000); when the
\* read of the metadata object fails the download ends in failure and has
\* fetched no chunk.
C31_LookupBeforeFetch ==
    /\ [](\A s \in Sessions :
            /\ dl[s].pc = "fetch" =>
                  /\ dl[s].chunkCount > 0
                  /\ dl[s].pending \subseteq 1..dl[s].chunkCount
            /\ dl[s].got # << >> => DOMAIN dl[s].got \subseteq 1..dl[s].chunkCount)
    /\ [][\A s \in Sessions :
            /\ (dl[s].pc # "fetch" /\ dl'[s].pc = "fetch") =>
                  IF variant = "A"
                  THEN \E k \in 1..Len(rendered[s]) :
                          /\ rendered[s][k].id = dl'[s].entryId
                          /\ dl'[s].chunkCount = rendered[s][k].chunkCount
                          /\ dl'[s].folder = rendered[s][k].folder
                          /\ dl'[s].name = rendered[s][k].name
                  ELSE /\ dl[s].pc = "meta"
                       /\ <<"assets", "/">> \o dl[s].name \o <<".meta.json">>
                              \in DOMAIN objects
                       /\ dl'[s].chunkCount =
                              objects[<<"assets", "/">> \o dl[s].name \o <<".meta.json">>]
                                  .meta.chunkCount
                       /\ dl'[s].name = dl[s].name
            /\ (dl[s].pc = "meta" /\ dl'[s].pc # "meta"
                /\ (\/ dl'[s].errs > dl[s].errs
                    \/ <<"assets", "/">> \o dl[s].name \o <<".meta.json">>
                           \notin DOMAIN objects)) =>
                  /\ dl'[s].pc = "idle"
                  /\ dl'[s].result = "failed"
                  /\ dl'[s].got = << >>
                  /\ dl'[s].pending = {}]_vars

\* a download of part_000 that is fetching the chunks of a file whose chunk
\* count it read from the metadata object
C31_Witness ==
    \E s \in Sessions :
        /\ variant = "B"
        /\ dl[s].pc = "fetch"
        /\ dl[s].chunkCount > 1
        /\ dl[s].got # << >>

(***************************************************************************)
(* Claims about the order of a delete and about what a store holds.        *)
(***************************************************************************)
\* the store holds none of the objects of the entry
entryGone(v, e, objs) ==
    /\ \A n \in 1..e.chunkCount : entryChunkPath(v, e, n) \notin DOMAIN objs
    /\ entryMetaPath(v, e) \notin DOMAIN objs

\* C32: a delete removes every chunk object and the metadata object of the
\* file before it removes the FileEntry: when the registry write that drops
\* the entry is issued the store holds none of these objects any more.
C32_ObjectsDeletedBeforeEntry ==
    [][\A s \in Sessions :
          (del[s].pc = "regGet" /\ del'[s].pc = "regPut" /\ del[s].entry # << >>)
              => entryGone(variant, del[s].entry[1], objects)]_vars

(***************************************************************************)
(* Claims about what a failed upload does to the store.                    *)
(***************************************************************************)
\* C33: a chunk PUT answered with an authorization failure is not retried:
\* the step in which an upload gets that answer ends the upload in failure.
C33_AuthFailureNotRetried ==
    [][\A s \in Sessions :
          (upl[s].pc = "transfer" /\ ~upl[s].denied /\ upl'[s].denied)
              => /\ upl'[s].pc = "idle"
                 /\ upl'[s].result = "failed"]_vars

\* the chunks the upload of session s has stored: those of the batches
\* before the one in flight, and those of that batch no longer in flight
Written(s) ==
    {n \in 1..Len(upl[s].chunks) :
        n <= upl[s].i + BatchSize(variant) /\ n \notin DOMAIN upl[s].tasks}

\* C34: an upload that fails after it stored some chunks issues no delete:
\* the step that reports the failure leaves the store as it is, and (no
\* delete of the user having run) every chunk the upload had written is in
\* the store with the content it was sent with.
C34_FailedUploadKeepsChunks ==
    [][\A s \in Sessions :
          (upl[s].pc # "idle" /\ upl'[s].pc = "idle" /\ upl'[s].result = "failed")
              => /\ objects' = objects
                 /\ (\A x \in Sessions : del[x] = DelIdle) =>
                        \A n \in Written(s) :
                            LET path == chunkPath(variant, upl[s].base, n)
                            IN  /\ path \in DOMAIN objects'
                                /\ objects'[path].text =
                                       chunkContent(variant, upl[s].chunks[n])]_vars

\* an upload that stored a batch of chunks and then failed on a later chunk
C34_Witness ==
    \E s \in Sessions :
        /\ upl[s].result = "failed"
        /\ upl[s].progress > 0
        /\ upl[s].tasks # << >>
        /\ \A n \in 1..upl[s].progress :
              chunkPath(variant, upl[s].base, n) \in DOMAIN objects

(***************************************************************************)
(* The compression ratio of a registry entry and of the storage summary.   *)
(* A JavaScript number is a double: n / 0 is Infinity for n > 0 and NaN    *)
(* for n = 0, and toFixed(2) of those is the text "-Infinity" (after       *)
(* 1 - Infinity) or "NaN".  A ratio is a record: its kind, and for a       *)
(* number its value in hundredths of a percent.                            *)
(***************************************************************************)
MaxRatioFiles == 2

\* ((1 - compressedSize / originalSize) * 100).toFixed(2)
compressionRatio(compressedSize, originalSize) ==
    IF originalSize = 0
    THEN IF compressedSize = 0
         THEN [kind |-> "NaN", hundredths |-> 0]
         ELSE [kind |-> "-Infinity", hundredths |-> 0]
    ELSE [kind |-> "number",
          hundredths |-> (2 * 10000 * (originalSize - compressedSize) + originalSize)
                             \div (2 * originalSize)]

\* the size fields of the entry updateRegistry / updateDataJson pushes
sizeEntry(originalSize, compressedSize) ==
    [originalSize |-> originalSize, compressedSize |-> compressedSize,
     compressionRatio |-> compressionRatio(compressedSize, originalSize)]

RECURSIVE reduceSum(_, _)
\* files.reduce((sum, f) => sum + f[field], 0)
reduceSum(files, field) ==
    IF files = << >> THEN 0
    ELSE files[1][field] + reduceSum(Tail(files), field)

RatioInit ==
    /\ variant \in {"A", "B"}
    /\ compressionLib = [s \in Sessions |-> TRUE]
    /\ appState = [s \in Sessions |-> InitAppState]
    /\ rendered = [s \in Sessions |-> << >>]
    /\ loads = [s \in Sessions |-> 0]
    /\ resetTimer = [s \in Sessions |-> FALSE]
    /\ upl = [s \in Sessions |-> UplIdle]
    /\ bg = {}
    /\ dl = [s \in Sessions |-> DlIdle]
    /\ del = [s \in Sessions |-> DelIdle]
    /\ objects = << >>
    /\ dataFile = [exists |-> FALSE, doc |-> DefaultDataJson]
    /\ now = 1
    /\ ops = [s \in Sessions |-> 0]
    /\ faults = 0
    /\ disk = {}
    /\ chk = [phase |-> "registry", files |-> << >>, shown |-> << >>]

\* startUpload .. updateRegistry / updateDataJson for a selected file of
\* content data: the entry pushed carries selectedFile.size, compressed.size
\* and the ratio of the two
RatioRegister(data) ==
    /\ Len(chk.files) < MaxRatioFiles
    /\ chk' = [chk EXCEPT !.files = Append(@, sizeEntry(Len(data), Len(gzip(data))))]
    /\ UNCHANGED <<variant, compressionLib, appState, rendered, loads, resetTimer, upl, bg, dl, del,
                   objects, dataFile, now, ops, faults, disk>>

\* deleteFile of script.js: updateRegistry('', 0, 0, 0, '')
RatioBlank ==
    /\ variant = "A"
    /\ Len(chk.files) < MaxRatioFiles
    /\ chk' = [chk EXCEPT !.files = Append(@, sizeEntry(0, 0))]
    /\ UNCHANGED <<variant, compressionLib, appState, rendered, loads, resetTimer, upl, bg, dl, del,
                   objects, dataFile, now, ops, faults, disk>>

\* updateStorageInfo: the ratio of the summed sizes, for a registry with files
RatioTotal ==
    /\ chk.files # << >>
    /\ chk.shown = << >>
    /\ chk' = [chk EXCEPT !.shown = <<compressionRatio(reduceSum(chk.files, "compressedSize"),
                                                        reduceSum(chk.files, "originalSize"))>>]
    /\ UNCHANGED <<variant, compressionLib, appState, rendered, loads, resetTimer, upl, bg, dl, del,
                   objects, dataFile, now, ops, faults, disk>>

RatioNext ==
    \/ \E data \in SeqsUpTo(Byte, MaxBlobLen) : RatioRegister(data)
    \/ RatioBlank
    \/ RatioTotal

SpecRatio == RatioInit /\ [][RatioNext]_vars

\* C35: the ratio is computed only for an original size above zero: the
\* ratio stored in every registry entry, and the one the storage summary
\* shows, is a finite number, that of a zero-byte file included.
C35_RatioIsFinite ==
    /\ \A k \in 1..Len(chk.files) : chk.files[k].compressionRatio.kind = "number"
    /\ \A k \in 1..Len(chk.shown) : chk.shown[k].kind = "number"

\* C36: once startUpload has reported the failure of a batched upload, the
\* upload sends no further PUT: no chunk upload of the failed batch is left
\* retrying after the report and the reset of isUploading.
C36_NoUploadAfterFailure ==
    \A s \in Sessions :
        (upl[s].pc = "idle" /\ upl[s].result = "failed" /\ ~appState[s].isUploading)
            => \A t \in bg : \A n \in 1..Len(upl[s].chunks) :
                   t.path # chunkPath(variant, upl[s].base, n)

(***************************************************************************)
(* The entry and exit of startUpload and downloadFile in one page, for     *)
(* several invocations side by side.  A call is a record: its position     *)
(* ("wait": in waitForCompressionLib, "run": between its first and its     *)
(* last request, "end": returned) and the attempts counter of its wait.    *)
(* A file is selected and the settings are valid.  The click listener of   *)
(* #uploadBtn does not fire while the button is disabled; the download     *)
(* buttons of the file items are never disabled.                           *)
(***************************************************************************)
MaxClicks == 2

Call(pc) == [pc |-> pc, attempts |-> 0]

Running(calls) == {k \in 1..Len(calls) : calls[k].pc = "run"}

ClicksInit ==
    /\ variant \in {"A", "B"}
    /\ compressionLib \in {[s \in Sessions |-> b] : b \in BOOLEAN}
    /\ appState = [s \in Sessions |-> InitAppState]
    /\ rendered = [s \in Sessions |-> << >>]
    /\ loads = [s \in Sessions |-> 0]
    /\ resetTimer = [s \in Sessions |-> FALSE]
    /\ upl = [s \in Sessions |-> UplIdle]
    /\ bg = {}
    /\ dl = [s \in Sessions |-> DlIdle]
    /\ del = [s \in Sessions |-> DelIdle]
    /\ objects = << >>
    /\ dataFile = [exists |-> FALSE, doc |-> DefaultDataJson]
    /\ now = 1
    /\ ops = [s \in Sessions |-> 0]
    /\ faults = 0
    /\ disk = {}
    /\ chk = [up |-> << >>, down |-> << >>, isUploading |-> FALSE,
              isDownloading |-> FALSE, disabled |-> FALSE]

ClicksUnchanged ==
    UNCHANGED <<variant, compressionLib, appState, rendered, loads, resetTimer, upl, bg, dl, del,
                objects, dataFile, now, ops, faults, disk>>

\* a click on #uploadBtn: startUpload up to its first await
ClickUpload ==
    /\ Len(chk.up) < MaxClicks
    /\ ~chk.disabled
    /\ IF variant = "A"
       THEN IF chk.isUploading
            THEN chk' = [chk EXCEPT !.up = Append(@, Call("end"))]
            ELSE chk' = [chk EXCEPT !.up = Append(@, Call("run")),
                                    !.isUploading = TRUE, !.disabled = TRUE]
       ELSE chk' = [chk EXCEPT !.up = Append(@, Call("wait"))]
    /\ ClicksUnchanged

\* part_000: the interval callback of the waitForCompressionLib of call k of
\* startUpload, and what the call does when the wait settles
ClickUploadWait(k) ==
    /\ k \in 1..Len(chk.up)
    /\ chk.up[k].pc = "wait"
    /\ LET outcome == checkLib(compressionLib[1], chk.up[k].attempts)
       IN  chk' = [chk EXCEPT
                     !.up[k].attempts = IF compressionLib[1] THEN @ ELSE @ + 1,
                     !.up[k].pc = IF outcome = "again" THEN "wait"
                                  ELSE IF outcome = "resolve" THEN "run" ELSE "end",
                     !.isUploading = IF outcome = "resolve" THEN TRUE ELSE @,
                     !.disabled = IF outcome = "resolve" THEN TRUE ELSE @]
    /\ ClicksUnchanged

\* the finally of call k of startUpload
ClickUploadEnds(k) ==
    /\ k \in 1..Len(chk.up)
    /\ chk.up[k].pc = "run"
    /\ chk' = [chk EXCEPT !.up[k].pc = "end", !.isUploading = FALSE, !.disabled = FALSE]
    /\ ClicksUnchanged

\* a click on the download button of a file item: downloadFile up to its
\* first await
ClickDownload ==
    /\ Len(chk.down) < MaxClicks
    /\ IF variant = "A"
       THEN IF chk.isDownloading
            THEN chk' = [chk EXCEPT !.down = Append(@, Call("end"))]
            ELSE chk' = [chk EXCEPT !.down = Append(@, Call("run")), !.isDownloading = TRUE]
       ELSE chk' = [chk EXCEPT !.down = Append(@, Call("wait"))]
    /\ ClicksUnchanged

\* part_000: the wait of call k of downloadFile
ClickDownloadWait(k) ==
    /\ k \in 1..Len(chk.down)
    /\ chk.down[k].pc = "wait"
    /\ LET outcome == checkLib(compressionLib[1], chk.down[k].attempts)
       IN  chk' = [chk EXCEPT
                     !.down[k].attempts = IF compressionLib[1] THEN @ ELSE @ + 1,
                     !.down[k].pc = IF outcome = "again" THEN "wait"
                                    ELSE IF outcome = "resolve" THEN "run" ELSE "end"]
    /\ ClicksUnchanged

\* call k of downloadFile returns; script.js resets isDownloading in its
\* finally, part_000 has no such flag
ClickDownloadEnds(k) ==
    /\ k \in 1..Len(chk.down)
    /\ chk.down[k].pc = "run"
    /\ chk' = [chk EXCEPT !.down[k].pc = "end",
                          !.isDownloading = IF variant = "A" THEN FALSE ELSE @]
    /\ ClicksUnchanged

\* the script tag of the compression library finishes loading
ClickLibLoads ==
    /\ ~compressionLib[1]
    /\ compressionLib' = [compressionLib EXCEPT ![1] = TRUE]
    /\ UNCHANGED <<variant, appState, rendered, loads, resetTimer, upl, bg, dl, del,
                   objects, dataFile, now, ops, faults, disk, chk>>

ClicksNext ==
    \/ ClickUpload
    \/ \E k \in 1..MaxClicks : ClickUploadWait(k)
    \/ \E k \in 1..MaxClicks : ClickUploadEnds(k)
    \/ ClickDownload
    \/ \E k \in 1..MaxClicks : ClickDownloadWait(k)
    \/ \E k \in 1..MaxClicks : ClickDownloadEnds(k)
    \/ ClickLibLoads

SpecClicks == ClicksInit /\ [][ClicksNext]_vars

\* C37: at most one upload and at most one download run at a time in a
\* session: a startUpload or downloadFile invoked while one is running
\* returns without sending a request and without changing the state.
C37_OneTransferAtATime ==
    /\ Cardinality(Running(chk.up)) <= 1
    /\ Cardinality(Running(chk.down)) <= 1

(***************************************************************************)
(* Every request returns.  The steps of a startUpload call of session s    *)
(* that wait for nothing but a timer, the codec or the answer of the       *)
(* store, and those of a downloadFile call; the event loop runs a callback *)
(* that is ready, so each kind is taken when it stays enabled.             *)
(***************************************************************************)
UploadSteps(s) ==
    \/ waitUpload(s)
    \/ uploadCompressed(s)
    \/ \E r \in Answers :
        \/ \E n \in DOMAIN upl[s].tasks : uploadChunk(s, n, r)
        \/ saveMetadata(s, r)
        \/ uploadRegistryGet(s, r)
        \/ uploadRegistryPut(s, r)

DownloadSteps(s) ==
    \/ waitDownload(s)
    \/ \E r \in Answers :
        \/ downloadMetadata(s, r)
        \/ \E n \in dl[s].pending : downloadChunk(s, n, r)

SpecLive ==
    /\ Init /\ [][Next]_vars
    /\ \A s \in Sessions : WF_vars(UploadSteps(s)) /\ WF_vars(DownloadSteps(s))

UploadEnded(s) ==
    /\ upl[s].pc = "idle"
    /\ upl[s].result \in {"success", "failed"}
    /\ ~appState[s].isUploading

DownloadEnded(s) ==
    /\ dl[s].pc = "idle"
    /\ dl[s].result \in {"success", "failed"}
    /\ ~appState[s].isDownloading

\* C38: every request returning, every started upload and every started
\* download ends, as a success or as a failure, with isUploading /
\* isDownloading false afterwards: the step that ends a call ends it so, and
\* the calls the user started (a bounded number) are in the end all over.
C38_TransfersEnd ==
    /\ [][\A s \in Sessions :
            /\ (upl[s].pc # "idle" /\ upl'[s].pc = "idle") => UploadEnded(s)'
            /\ (dl[s].pc # "idle" /\ dl'[s].pc = "idle") => DownloadEnded(s)']_vars
    /\ <>[](\A s \in Sessions : upl[s].pc = "idle" /\ dl[s].pc = "idle")

\* an upload that ran through its chunk, metadata and registry requests and
\* has ended
C38_Witness ==
    \E s \in Sessions :
        /\ UploadEnded(s)
        /\ upl[s].result = "success"
        /\ upl[s].chunks # << >>
        /\ dl[s].pc = "idle"

\* C39: every FileEntry of the remote registry has all its chunk objects
\* 1..chunkCount in the store, after uploads that succeeded or failed and
\* after deletes that failed part-way (stated for the states in which no
\* delete is under way).
C39_RegisteredChunksStored ==
    ((\A s \in Sessions : del[s].pc = "idle") /\ dataFile.exists /\ parses(dataFile.doc))
        => \A k \in 1..Len(dataFile.doc.files) :
               \A n \in 1..dataFile.doc.files[k].chunkCount :
                   entryChunkPath(variant, dataFile.doc.files[k], n) \in DOMAIN objects

(***************************************************************************)
(* The remote folder and chunk paths of two files with different names.    *)
(***************************************************************************)
MaxPairIndex == 2

PairInit ==
    /\ variant \in {"A", "B"}
    /\ compressionLib = [s \in Sessions |-> TRUE]
    /\ appState = [s \in Sessions |-> InitAppState]
    /\ rendered = [s \in Sessions |-> << >>]
    /\ loads = [s \in Sessions |-> 0]
    /\ resetTimer = [s \in Sessions |-> FALSE]
    /\ upl = [s \in Sessions |-> UplIdle]
    /\ bg = {}
    /\ dl = [s \in Sessions |-> DlIdle]
    /\ del = [s \in Sessions |-> DelIdle]
    /\ objects = << >>
    /\ dataFile = [exists |-> FALSE, doc |-> DefaultDataJson]
    /\ now = 1
    /\ ops = [s \in Sessions |-> 0]
    /\ faults = 0
    /\ disk = {}
    /\ chk \in {[phase |-> "names", names |-> nms, n |-> <<n, m>>,
                 folders |-> << >>, stored |-> << >>, deleted |-> << >>] :
                nms \in {p \in Names \X Names : p[1] # p[2]},
                n \in 1..MaxPairIndex, m \in 1..MaxPairIndex}

\* startUpload / uploadChunk for each of the two files: the folder and the
\* path of chunk n[k] of file k; deleteFile of its entry: the path deleted
PairDerive ==
    /\ chk.phase = "names"
    /\ LET base(k) == IF variant = "A" THEN fileFolder(chk.names[k]) ELSE chk.names[k]
           entry(k) == fileEntry(variant, now, chk.names[k], chk.n[k])
       IN  chk' = [chk EXCEPT
                     !.phase = "derived",
                     !.folders = [k \in 1..2 |-> IF variant = "A" THEN base(k) ELSE << >>],
                     !.stored = [k \in 1..2 |-> chunkPath(variant, base(k), chk.n[k])],
                     !.deleted = [k \in 1..2 |->
                                    deleteChunkPath(variant, entry(k).name, entry(k).folder,
                                                    chk.n[k])]]
    /\ UNCHANGED <<variant, compressionLib, appState, rendered, loads, resetTimer, upl, bg, dl, del,
                   objects, dataFile, now, ops, faults, disk>>

PairNext == PairDerive

SpecPair == PairInit /\ [][PairNext]_vars

\* C40: two files with different names never derive the same remote folder
\* or the same chunk path, sanitized names included: the chunk an upload of
\* one stores and the chunk a delete of one removes is never a chunk of the
\* other.
C40_NamesKeepPathsApart ==
    chk.phase = "derived"
        => /\ variant = "A" => chk.folders[1] # chk.folders[2]
           /\ chk.stored[1] # chk.stored[2]
           /\ chk.deleted[1] # chk.stored[2]


=============================================================================
